---- MODULE Spec2Model ----
(***************************************************************************)
(* Model of the FHIR type-definition generator                             *)
(* (packages/generator/src/index.ts), of the action keys of the plan       *)
(* definition builder (packages/react/src/PlanDefinitionBuilder.tsx) and   *)
(* of the slot search of the scheduler (packages/react/src/Scheduler.tsx). *)
(*                                                                         *)
(* JavaScript strings are sequences of one-character strings, so that      *)
(* capitalize, split, startsWith, replace and the sorts act on characters  *)
(* as they do in the source.  Fields that the source only ever compares    *)
(* for equality (max, binding strength, the resourceType of an enumeration *)
(* resource) are plain TLA+ strings.  An optional string field that the    *)
(* source only tests for truthiness is the empty string when absent.       *)
(* Positions in strings are 1-based (JavaScript's are 0-based).            *)
(***************************************************************************)
EXTENDS Integers, Sequences, FiniteSets, TLC

VARIABLES
    pc,            \* position of main(): the step that runs next
    run,           \* number of calls of main() started in this process
    schema,        \* globalSchema.types: sequence of <<type name, TypeSchema>> entries
    bundle,        \* entries of fhir/r4/valuesets.json
    valueSets,     \* module-level Map url -> CodeSystem | ValueSet   (line 39)
    fhirTypes,     \* module-level FhirType[]; a node's identity is its index (line 37)
    fhirTypesMap,  \* module-level Record outputName -> node          (line 38)
    parentTypes,   \* main()'s local parentTypes: <<names in key order, name -> node>>
    todo,          \* nodes of Object.values(parentTypes) still to be written
    files,         \* the output directory: file name -> appended lines
    firstRun,      \* the output directory as the first completed run left it
    property,      \* the Property handed to the Property Resolver
    outcome,       \* what getTypeScriptProperties(property) did
    lookupUrl,     \* the URL handed to the Value-Set Resolver
    flattened,     \* what getValueSetValues(url) did
    planValue,     \* PlanDefinitionBuilder's value state: the plan with its actions
    nextId,        \* PlanDefinitionBuilder.tsx's module-level counter (line 428)
    selection,     \* Scheduler: the schedule and the month of the current render
    slots,         \* Scheduler's slots state
    inFlight       \* Scheduler: the searches whose promise is not settled yet

vars == <<pc, run, schema, bundle, valueSets, fhirTypes, fhirTypesMap,
          parentTypes, todo, files, firstRun, property, outcome,
          lookupUrl, flattened, planValue, nextId, selection, slots, inFlight>>

(***************************************************************************)
(* Bounds                                                                  *)
(***************************************************************************)
MaxTypes == 4
MaxRuns == 2

(***************************************************************************)
(* JavaScript string primitives                                            *)
(***************************************************************************)
Range(s) == { s[i] : i \in DOMAIN s }

\* the characters that occur, in increasing UTF-16 code unit order
AsciiChars == <<" ","!","#","$","%","&","'","(",")","*","+",",","-",".","/","0","1","2","3","4","5","6","7","8","9",":",";","<","=",">","?","@","A","B","C","D","E","F","G","H","I","J","K","L","M","N","O","P","Q","R","S","T","U","V","W","X","Y","Z","[","]","^","_","a","b","c","d","e","f","g","h","i","j","k","l","m","n","o","p","q","r","s","t","u","v","w","x","y","z","{","|","}","~">>

\* rank of a character in code unit order
CharCode == [c \in Range(AsciiChars) |-> CHOOSE i \in DOMAIN AsciiChars : AsciiChars[i] = c]

LowerLetters == <<"a","b","c","d","e","f","g","h","i","j","k","l","m","n","o","p","q","r","s","t","u","v","w","x","y","z">>
UpperLetters == <<"A","B","C","D","E","F","G","H","I","J","K","L","M","N","O","P","Q","R","S","T","U","V","W","X","Y","Z">>

toUpperCase(c) ==
    IF c \in Range(LowerLetters)
    THEN UpperLetters[CHOOSE i \in DOMAIN LowerLetters : LowerLetters[i] = c]
    ELSE c

toLowerCase(c) ==
    IF c \in Range(UpperLetters)
    THEN LowerLetters[CHOOSE i \in DOMAIN UpperLetters : UpperLetters[i] = c]
    ELSE c

StartsWith(s, p) == Len(p) <= Len(s) /\ SubSeq(s, 1, Len(p)) = p
EndsWith(s, p) == Len(p) <= Len(s) /\ SubSeq(s, Len(s) - Len(p) + 1, Len(s)) = p

\* position of the first occurrence of p in s, 0 when there is none
IndexOf(s, p) ==
    LET hits == { i \in 1..(Len(s) - Len(p) + 1) : SubSeq(s, i, i + Len(p) - 1) = p }
    IN  IF hits = {} THEN 0 ELSE CHOOSE i \in hits : \A j \in hits : i <= j

Includes(s, p) == IndexOf(s, p) # 0

\* s.replace(p, r) with a string pattern: the first occurrence only
Replace(s, p, r) ==
    LET i == IndexOf(s, p)
    IN  IF i = 0 THEN s
        ELSE SubSeq(s, 1, i - 1) \o r \o SubSeq(s, i + Len(p), Len(s))

RECURSIVE Split(_, _)
Split(s, sep) ==
    LET i == IndexOf(s, sep)
    IN  IF i = 0 THEN <<s>>
        ELSE <<SubSeq(s, 1, i - 1)>> \o Split(SubSeq(s, i + Len(sep), Len(s)), sep)

RECURSIVE Join(_, _)
Join(parts, sep) ==
    IF parts = <<>> THEN <<>>
    ELSE IF Len(parts) = 1 THEN parts[1]
    ELSE parts[1] \o sep \o Join(Tail(parts), sep)

RECURSIVE Concat(_)
Concat(parts) == IF parts = <<>> THEN <<>> ELSE parts[1] \o Concat(Tail(parts))

\* capitalize of @medplum/core: first character upper-cased, rest unchanged
capitalize(word) ==
    IF word = <<>> THEN <<>> ELSE <<toUpperCase(word[1])>> \o Tail(word)

\* isLowerCase(c): c === c.toLowerCase(), also true of '' and of non-letters
isLowerCase(c) == c = <<>> \/ c = <<toLowerCase(c[1])>>

charAt0(s) == IF s = <<>> THEN <<>> ELSE <<s[1]>>

\* a < b in UTF-16 code unit order, the order of Array.prototype.sort()
RECURSIVE CodeUnitLess(_, _)
CodeUnitLess(a, b) ==
    IF b = <<>> THEN FALSE
    ELSE IF a = <<>> THEN TRUE
    ELSE IF a[1] = b[1] THEN CodeUnitLess(Tail(a), Tail(b))
    ELSE CharCode[a[1]] < CharCode[b[1]]

RECURSIVE InsertSorted(_, _)
InsertSorted(x, s) ==
    IF s = <<>> THEN <<x>>
    ELSE IF CodeUnitLess(x, s[Len(s)]) THEN Append(InsertSorted(x, SubSeq(s, 1, Len(s) - 1)), s[Len(s)])
    ELSE Append(s, x)

\* names.sort(): stable, by code unit
RECURSIVE Sort(_)
Sort(s) ==
    IF s = <<>> THEN <<>>
    ELSE InsertSorted(s[Len(s)], Sort(SubSeq(s, 1, Len(s) - 1)))

RECURSIVE SetToSeq(_)
SetToSeq(S) ==
    IF S = {} THEN <<>>
    ELSE LET x == CHOOSE x \in S : TRUE IN <<x>> \o SetToSeq(S \ {x})

\* Array.from(set).sort()
SortSet(S) == Sort(SetToSeq(S))

LowerCased(s) == [i \in DOMAIN s |-> toLowerCase(s[i])]

\* a.localeCompare(b) < 0: letters compare without case first; between
\* strings equal up to case the lower-case letter sorts first
LocaleLess(a, b) ==
    IF LowerCased(a) # LowerCased(b)
    THEN CodeUnitLess(LowerCased(a), LowerCased(b))
    ELSE \E i \in DOMAIN a :
            /\ SubSeq(a, 1, i - 1) = SubSeq(b, 1, i - 1)
            /\ a[i] # b[i]
            /\ a[i] = toLowerCase(a[i])

(***************************************************************************)
(* Value-Set Resolver (lines 418-474)                                      *)
(*                                                                         *)
(* The source passes one result array down the recursion and pushes to it; *)
(* here each call returns the codes it pushed, in push order.  The source  *)
(* has no cycle guard: a call chain that re-enters a URL it is already     *)
(* flattening recurses until the call stack overflows (RangeError).  That  *)
(* outcome is the overflow flag of the returned record; chain holds the    *)
(* URLs of the calls that are still open.                                  *)
(***************************************************************************)
Returned(codes) == [overflow |-> FALSE, codes |-> codes]
StackOverflow == [overflow |-> TRUE, codes |-> <<>>]

IsTruthy(s) == s # <<>>

RECURSIVE buildCodeSystemConceptValues(_)
buildCodeSystemConceptValues(concepts) ==
    IF concepts = <<>> THEN <<>>
    ELSE LET concept == concepts[1]
         IN  (IF IsTruthy(concept.code) THEN <<concept.code>> ELSE <<>>)
             \o buildCodeSystemConceptValues(concept.concept)
             \o buildCodeSystemConceptValues(Tail(concepts))

RECURSIVE buildValueSetValues(_, _, _)
RECURSIVE buildValueSetComposeValues(_, _, _)

buildValueSetValues(url, vs, chain) ==
    LET u == IF Includes(url, <<"|">>) THEN Split(url, <<"|">>)[1] ELSE url
    IN  IF u \notin DOMAIN vs THEN Returned(<<>>)
        ELSE IF u \in chain THEN StackOverflow
        ELSE IF vs[u].resourceType = "ValueSet"
             THEN buildValueSetComposeValues(vs[u].include, vs, chain \cup {u})
        ELSE IF vs[u].resourceType = "CodeSystem"
             THEN Returned(buildCodeSystemConceptValues(vs[u].concept))
        ELSE Returned(<<>>)

buildValueSetComposeValues(include, vs, chain) ==
    IF include = <<>> THEN Returned(<<>>)
    ELSE LET inc == include[1]
             head == IF inc.hasConcept
                     THEN Returned(SelectSeq(inc.concept, IsTruthy))
                     ELSE IF IsTruthy(inc.system)
                          THEN buildValueSetValues(inc.system, vs, chain)
                          ELSE Returned(<<>>)
             rest == buildValueSetComposeValues(Tail(include), vs, chain)
         IN  [overflow |-> head.overflow \/ rest.overflow,
              codes |-> head.codes \o rest.codes]

\* getValueSetValues that keeps only the first occurrence of each code
getValueSetValues_Distinct(url, vs) ==
    LET codes == buildValueSetValues(url, vs, {}).codes
    IN  SelectSeq([i \in DOMAIN codes |->
                      IF \E j \in 1..(i - 1) : codes[j] = codes[i] THEN <<>> ELSE codes[i]],
                  IsTruthy)

getValueSetValues(url, vs) == buildValueSetValues(url, vs, {}).codes

\* getValueSetValues(url) never returns: the recursion overflows the stack
ValueSetOverflows(url, vs) == buildValueSetValues(url, vs, {}).overflow

(***************************************************************************)
(* Property Resolver (lines 283-321, 339-416)                              *)
(***************************************************************************)
StringCodes ==
    { <<"b","a","s","e","6","4","B","i","n","a","r","y">>, <<"c","a","n","o","n","i","c","a","l">>, <<"c","o","d","e">>, <<"i","d">>, <<"m","a","r","k","d","o","w","n">>, <<"o","i","d">>, <<"s","t","r","i","n","g">>, <<"u","r","i">>,
      <<"u","r","l">>, <<"u","u","i","d">>, <<"x","h","t","m","l">>, <<"h","t","t","p",":","/","/","h","l","7",".","o","r","g","/","f","h","i","r","p","a","t","h","/","S","y","s","t","e","m",".","S","t","r","i","n","g">> }
DateCodes == { <<"d","a","t","e">>, <<"d","a","t","e","T","i","m","e">>, <<"i","n","s","t","a","n","t">>, <<"t","i","m","e">> }
NumberCodes == { <<"d","e","c","i","m","a","l">>, <<"i","n","t","e","g","e","r">>, <<"p","o","s","i","t","i","v","e","I","n","t">>, <<"u","n","s","i","g","n","e","d","I","n","t">>, <<"n","u","m","b","e","r">> }

ResourceTypesUrl == <<"h","t","t","p",":","/","/","h","l","7",".","o","r","g","/","f","h","i","r","/","V","a","l","u","e","S","e","t","/","r","e","s","o","u","r","c","e","-","t","y","p","e","s","|","4",".","0",".","1">>
AllTypesUrl == <<"h","t","t","p",":","/","/","h","l","7",".","o","r","g","/","f","h","i","r","/","V","a","l","u","e","S","e","t","/","a","l","l","-","t","y","p","e","s","|","4",".","0",".","1">>
DefinedTypesUrl == <<"h","t","t","p",":","/","/","h","l","7",".","o","r","g","/","f","h","i","r","/","V","a","l","u","e","S","e","t","/","d","e","f","i","n","e","d","-","t","y","p","e","s","|","4",".","0",".","1">>

\* the binding sends the field to the Value-Set Resolver (lines 356-363)
CallsValueSetResolver(prop) ==
    /\ IsTruthy(prop.valueSet)
    /\ prop.strength = "required"
    /\ prop.valueSet \notin { ResourceTypesUrl, AllTypesUrl, DefinedTypesUrl }

RECURSIVE AppendTargetProfiles(_, _)
AppendTargetProfiles(baseType, targetProfile) ==
    IF targetProfile = <<>> THEN baseType
    ELSE LET separated == IF ~EndsWith(baseType, <<"<">>) THEN baseType \o <<" ","|"," ">> ELSE baseType
             parts == Split(targetProfile[1], <<"/">>)
         IN  AppendTargetProfiles(separated \o parts[Len(parts)], Tail(targetProfile))

\* BaseTypeForProperty without the test of the binding strength (line 356)
BaseTypeForProperty_AnyStrength(prop, typeDefinition, vs) ==
    LET code == typeDefinition.code
    IN  IF code \in StringCodes
        THEN IF IsTruthy(prop.valueSet)
             THEN IF prop.valueSet = ResourceTypesUrl THEN <<"R","e","s","o","u","r","c","e","T","y","p","e">>
                  ELSE IF prop.valueSet # AllTypesUrl /\ prop.valueSet # DefinedTypesUrl
                       THEN LET values == getValueSetValues(prop.valueSet, vs)
                            IN  IF Len(values) > 0
                                THEN <<"'">> \o Join(values, <<"'"," ","|"," ","'">>) \o <<"'">>
                                ELSE <<"s","t","r","i","n","g">>
                       ELSE <<"s","t","r","i","n","g">>
             ELSE <<"s","t","r","i","n","g">>
        ELSE IF code \in DateCodes THEN <<"s","t","r","i","n","g">>
        ELSE IF code \in NumberCodes THEN <<"n","u","m","b","e","r">>
        ELSE IF code = <<"R","e","s","o","u","r","c","e","L","i","s","t">> THEN <<"R","e","s","o","u","r","c","e">>
        ELSE IF code \in { <<"E","l","e","m","e","n","t">>, <<"B","a","c","k","b","o","n","e","E","l","e","m","e","n","t">> }
             THEN prop.resourceType \o capitalize(prop.name)
        ELSE IF code = <<"R","e","f","e","r","e","n","c","e">>
             THEN IF Len(typeDefinition.targetProfile) > 0
                  THEN AppendTargetProfiles(code \o <<"<">>, typeDefinition.targetProfile) \o <<">">>
                  ELSE code
        ELSE code

\* the value of baseType when the switch is left (lines 340-407)
BaseTypeForProperty(prop, typeDefinition, vs) ==
    LET code == typeDefinition.code
    IN  IF code \in StringCodes
        THEN IF IsTruthy(prop.valueSet) /\ prop.strength = "required"
             THEN IF prop.valueSet = ResourceTypesUrl THEN <<"R","e","s","o","u","r","c","e","T","y","p","e">>
                  ELSE IF prop.valueSet # AllTypesUrl /\ prop.valueSet # DefinedTypesUrl
                       THEN LET values == getValueSetValues(prop.valueSet, vs)
                            IN  IF Len(values) > 0
                                THEN <<"'">> \o Join(values, <<"'"," ","|"," ","'">>) \o <<"'">>
                                ELSE <<"s","t","r","i","n","g">>
                       ELSE <<"s","t","r","i","n","g">>
             ELSE <<"s","t","r","i","n","g">>
        ELSE IF code \in DateCodes THEN <<"s","t","r","i","n","g">>
        ELSE IF code \in NumberCodes THEN <<"n","u","m","b","e","r">>
        ELSE IF code = <<"R","e","s","o","u","r","c","e","L","i","s","t">> THEN <<"R","e","s","o","u","r","c","e">>
        ELSE IF code \in { <<"E","l","e","m","e","n","t">>, <<"B","a","c","k","b","o","n","e","E","l","e","m","e","n","t">> }
             THEN prop.resourceType \o capitalize(prop.name)
        ELSE IF code = <<"R","e","f","e","r","e","n","c","e">>
             THEN IF Len(typeDefinition.targetProfile) > 0
                  THEN AppendTargetProfiles(code \o <<"<">>, typeDefinition.targetProfile) \o <<">">>
                  ELSE code
        ELSE code

MultiWrapped(prop, baseType) ==
    IF prop.max = "*"
    THEN IF Includes(baseType, <<"'"," ","|"," ","'">>) THEN <<"(">> \o baseType \o <<")","[","]">> ELSE baseType \o <<"[","]">>
    ELSE baseType

getTypeScriptTypeForProperty(prop, typeDefinition, vs) ==
    MultiWrapped(prop, BaseTypeForProperty(prop, typeDefinition, vs))

IsResourceCarrier(prop) ==
    /\ prop.name = <<"r","e","s","o","u","r","c","e">>
    /\ prop.resourceType \in { <<"B","u","n","d","l","e","E","n","t","r","y">>, <<"O","p","e","r","a","t","i","o","n","O","u","t","c","o","m","e">>, <<"R","e","f","e","r","e","n","c","e">> }

IsEntryCarrier(prop) == prop.resourceType = <<"B","u","n","d","l","e">> /\ prop.name = <<"e","n","t","r","y">>

\* ContentReferenceTypeName that stops after the second path segment
ContentReferenceTypeName_TwoSegments(prop) ==
    LET segments == Split(Replace(prop.contentReference, <<"#">>, <<>>), <<".">>)
        kept == SubSeq(segments, 1, IF Len(segments) < 2 THEN Len(segments) ELSE 2)
        baseName == Concat([i \in DOMAIN kept |-> capitalize(kept[i])])
    IN  IF prop.max = "*" THEN baseName \o <<"[","]">> ELSE baseName

\* the typeName of lines 297-298
ContentReferenceTypeName(prop) ==
    LET baseName == Concat([i \in DOMAIN Split(Replace(prop.contentReference, <<"#">>, <<>>), <<".">>) |->
                               capitalize(Split(Replace(prop.contentReference, <<"#">>, <<>>), <<".">>)[i])])
    IN  IF prop.max = "*" THEN baseName \o <<"[","]">> ELSE baseName

\* getTypeScriptProperties that does not capitalize the type code (line 309)
getTypeScriptProperties_PlainCode(prop, vs) ==
    IF IsResourceCarrier(prop) THEN << [name |-> <<"r","e","s","o","u","r","c","e">>, typeName |-> <<"T">>] >>
    ELSE IF IsEntryCarrier(prop) THEN << [name |-> <<"e","n","t","r","y">>, typeName |-> <<"B","u","n","d","l","e","E","n","t","r","y","<","T",">","[","]">>] >>
    ELSE IF IsTruthy(prop.contentReference)
         THEN << [name |-> prop.name, typeName |-> ContentReferenceTypeName(prop)] >>
    ELSE IF EndsWith(prop.name, <<"[","x","]">>)
         THEN [i \in DOMAIN prop.type |->
                 [name |-> Replace(prop.name, <<"[","x","]">>, <<>>) \o prop.type[i].code,
                  typeName |-> getTypeScriptTypeForProperty(prop, prop.type[i], vs)]]
    ELSE IF prop.type = <<>> THEN <<>>
    ELSE << [name |-> prop.name,
             typeName |-> getTypeScriptTypeForProperty(prop, prop.type[1], vs)] >>

getTypeScriptProperties(prop, vs) ==
    IF IsResourceCarrier(prop) THEN << [name |-> <<"r","e","s","o","u","r","c","e">>, typeName |-> <<"T">>] >>
    ELSE IF IsEntryCarrier(prop) THEN << [name |-> <<"e","n","t","r","y">>, typeName |-> <<"B","u","n","d","l","e","E","n","t","r","y","<","T",">","[","]">>] >>
    ELSE IF IsTruthy(prop.contentReference)
         THEN << [name |-> prop.name, typeName |-> ContentReferenceTypeName(prop)] >>
    ELSE IF EndsWith(prop.name, <<"[","x","]">>)
         THEN [i \in DOMAIN prop.type |->
                 [name |-> Replace(prop.name, <<"[","x","]">>, <<>>) \o capitalize(prop.type[i].code),
                  typeName |-> getTypeScriptTypeForProperty(prop, prop.type[i], vs)]]
    ELSE IF prop.type = <<>> THEN <<>>
    ELSE << [name |-> prop.name,
             typeName |-> getTypeScriptTypeForProperty(prop, prop.type[1], vs)] >>

\* getTypeScriptProperties(prop) throws instead of returning: line 340 reads
\* .code of an undefined type (TypeError), or the Value-Set Resolver overflows
ResolverThrows(prop, vs) ==
    /\ ~IsResourceCarrier(prop)
    /\ ~IsEntryCarrier(prop)
    /\ ~IsTruthy(prop.contentReference)
    /\ \/ ~EndsWith(prop.name, <<"[","x","]">>) /\ prop.type = <<>>
       \/ \E i \in DOMAIN prop.type :
             /\ EndsWith(prop.name, <<"[","x","]">>) \/ i = 1
             /\ prop.type[i].code \in StringCodes
             /\ CallsValueSetResolver(prop)
             /\ ValueSetOverflows(prop.valueSet, vs)

(***************************************************************************)
(* Inputs: the enumeration corpus (fhir/r4/valuesets.json)                 *)
(***************************************************************************)
Concept(code, children) == [code |-> code, concept |-> children]
IncludeConcepts(codes) == [hasConcept |-> TRUE, concept |-> codes, system |-> <<>>]
IncludeSystem(system) == [hasConcept |-> FALSE, concept |-> <<>>, system |-> system]
ValueSet(url, include) ==
    [resourceType |-> "ValueSet", url |-> url, include |-> include, concept |-> <<>>]
CodeSystem(url, concepts) ==
    [resourceType |-> "CodeSystem", url |-> url, include |-> <<>>, concept |-> concepts]
OtherResource(url) ==
    [resourceType |-> "StructureDefinition", url |-> url, include |-> <<>>, concept |-> <<>>]

BundleA ==
    << ValueSet(<<"u","r","n",":","v","s",":","s","t","a","t","u","s">>, << IncludeConcepts(<< <<"a","c","t","i","v","e">>, <<"i","n","a","c","t","i","v","e">> >>) >>),
       CodeSystem(<<"u","r","n",":","c","s",":","t","r","e","e">>, << Concept(<<"a">>, << Concept(<<"b">>, <<>>) >>), Concept(<<"c">>, <<>>) >>),
       ValueSet(<<"u","r","n",":","v","s",":","o","v","e","r","l","a","p">>, << IncludeConcepts(<< <<"a">>, <<"b">> >>), IncludeSystem(<<"u","r","n",":","c","s",":","t","r","e","e","|","1">>) >>),
       ValueSet(<<"u","r","n",":","v","s",":","e","m","p","t","y">>, <<>>),
       ValueSet(<<"u","r","n",":","v","s",":","s","i","n","g","l","e">>, << IncludeSystem(<<"u","r","n",":","c","s",":","s","i","n","g","l","e">>) >>),
       CodeSystem(<<"u","r","n",":","c","s",":","s","i","n","g","l","e">>, << Concept(<<"o","n","l","y">>, <<>>) >>),
       OtherResource(<<"u","r","n",":","v","s",":","o","t","h","e","r">>) >>

BundleB ==
    << ValueSet(<<"u","r","n",":","v","s",":","s","t","a","t","u","s">>, << IncludeConcepts(<< <<"o","n">>, <<>>, <<"o","n">> >>), IncludeSystem(<<"u","r","n",":","c","s",":","n","o","n","e">>) >>),
       CodeSystem(<<"u","r","n",":","v","s",":","e","m","p","t","y">>, << Concept(<<>>, <<>>) >>),
       ValueSet(<<"u","r","n",":","v","s",":","o","v","e","r","l","a","p">>, << IncludeConcepts(<<>>), IncludeSystem(<<"u","r","n",":","v","s",":","s","t","a","t","u","s">>) >>),
       ValueSet(<<"u","r","n",":","v","s",":","l","o","o","p">>, << IncludeConcepts(<< <<"x">> >>), IncludeSystem(<<"u","r","n",":","v","s",":","l","o","o","p","2">>) >>),
       ValueSet(<<"u","r","n",":","v","s",":","l","o","o","p","2">>, << IncludeSystem(<<"u","r","n",":","v","s",":","l","o","o","p","|","2">>) >>),
       ValueSet(<<"u","r","n",":","v","s",":","o","v","e","r","l","a","p">>, << IncludeConcepts(<< <<"z">> >>), IncludeSystem(<<"u","r","n",":","v","s",":","s","t","a","t","u","s","|","4",".","0",".","1">>) >>) >>

Bundles == { BundleA, BundleB }

(***************************************************************************)
(* Inputs: properties                                                      *)
(***************************************************************************)
Tp(code) == [code |-> code, targetProfile |-> <<>>]
RefTo(targetProfile) == [code |-> <<"R","e","f","e","r","e","n","c","e">>, targetProfile |-> targetProfile]

PatientProfile == <<"h","t","t","p",":","/","/","h","l","7",".","o","r","g","/","f","h","i","r","/","S","t","r","u","c","t","u","r","e","D","e","f","i","n","i","t","i","o","n","/","P","a","t","i","e","n","t">>
GroupProfile == <<"h","t","t","p",":","/","/","h","l","7",".","o","r","g","/","f","h","i","r","/","S","t","r","u","c","t","u","r","e","D","e","f","i","n","i","t","i","o","n","/","G","r","o","u","p">>
OrganizationProfile == <<"h","t","t","p",":","/","/","h","l","7",".","o","r","g","/","f","h","i","r","/","S","t","r","u","c","t","u","r","e","D","e","f","i","n","i","t","i","o","n","/","O","r","g","a","n","i","z","a","t","i","o","n">>

\* an ElementDefinition as the generator reads it
Def(name, max, contentReference, type, valueSet, strength) ==
    [name |-> name, max |-> max, contentReference |-> contentReference,
     type |-> type, valueSet |-> valueSet, strength |-> strength]

\* a Property (lines 18-22, 118-122)
Prop(resourceType, def) ==
    [resourceType |-> resourceType, name |-> def.name, max |-> def.max,
     contentReference |-> def.contentReference, type |-> def.type,
     valueSet |-> def.valueSet, strength |-> def.strength]

OwnerNames == { <<"B","u","n","d","l","e">>, <<"B","u","n","d","l","e","E","n","t","r","y">>, <<"O","p","e","r","a","t","i","o","n","O","u","t","c","o","m","e">>, <<"R","e","f","e","r","e","n","c","e">>, <<"C","o","n","t","a","i","n","e","r">> }
FieldNames == { <<"r","e","s","o","u","r","c","e">>, <<"e","n","t","r","y">>, <<"i","t","e","m">>, <<"s","t","a","t","u","s">>, <<"v","a","l","u","e","[","x","]">> }
MaxValues == { "1", "2", "*" }
ContentReferences == { <<>>, <<"#","C","o","n","t","a","i","n","e","r",".","i","t","e","m",".","d","e","t","a","i","l">>, <<"#","C","o","n","t","a","i","n","e","r",".","i","t","e","m">> }
TypeLists ==
    { <<>>,
      << Tp(<<"c","o","d","e">>) >>, << Tp(<<"s","t","r","i","n","g">>) >>, << Tp(<<"b","o","o","l","e","a","n">>) >>, << Tp(<<"d","e","c","i","m","a","l">>) >>,
      << Tp(<<"d","a","t","e","T","i","m","e">>) >>, << Tp(<<"R","e","s","o","u","r","c","e","L","i","s","t">>) >>, << Tp(<<"B","a","c","k","b","o","n","e","E","l","e","m","e","n","t">>) >>,
      << Tp(<<"R","e","f","e","r","e","n","c","e">>) >>, << RefTo(<< PatientProfile, GroupProfile >>) >>,
      << Tp(<<"s","t","r","i","n","g">>), RefTo(<< PatientProfile >>) >>,
      << Tp(<<"c","o","d","e">>), Tp(<<"b","o","o","l","e","a","n">>), Tp(<<"u","r","i">>) >> }
Bindings ==
    { << <<>>, "" >> }
    \cup { << url, "required" >> : url \in
             { <<"u","r","n",":","v","s",":","s","t","a","t","u","s","|","4",".","0",".","1">>, <<"u","r","n",":","v","s",":","o","v","e","r","l","a","p">>, <<"u","r","n",":","v","s",":","e","m","p","t","y">>, <<"u","r","n",":","v","s",":","s","i","n","g","l","e">>, <<"u","r","n",":","v","s",":","u","n","k","n","o","w","n">>,
               <<"u","r","n",":","v","s",":","l","o","o","p">>, ResourceTypesUrl, AllTypesUrl, DefinedTypesUrl } }
    \cup { << url, strength >> : url \in { <<"u","r","n",":","v","s",":","s","t","a","t","u","s","|","4",".","0",".","1">> },
                                strength \in { "extensible", "preferred", "example" } }

PropertySet ==
    { Prop(owner, Def(name, max, ref, type, binding[1], binding[2])) :
        owner \in OwnerNames, name \in FieldNames, max \in MaxValues,
        ref \in ContentReferences, type \in TypeLists, binding \in Bindings }

NoProperty == Prop(<<>>, Def(<<>>, "1", <<>>, <<>>, <<>>, ""))

Pending == [status |-> "pending", fields |-> <<>>]

\* getValueSetValues has not been called
NotFlattened == [status |-> "pending", codes |-> <<>>]

\* no Scheduler is mounted
NoSelection == [schedule |-> 0, month |-> 0]
NoSlots == [status |-> "undefined", schedule |-> 0, month |-> 0]

\* PlanDefinitionBuilder holds no value yet (PlanDefinitionBuilder.tsx line 30)
NoPlan == [loaded |-> FALSE, action |-> <<>>]

(***************************************************************************)
(* Loading the enumeration corpus (lines 46-52)                            *)
(***************************************************************************)
RECURSIVE SetValueSets(_, _)
SetValueSets(vs, entries) ==
    IF entries = <<>> THEN vs
    ELSE LET resource == entries[1]
         IN  IF resource.resourceType = "CodeSystem" \/ resource.resourceType = "ValueSet"
             THEN SetValueSets((resource.url :> resource) @@ vs, Tail(entries))
             ELSE SetValueSets(vs, Tail(entries))

EmptyMap == [k \in {} |-> k]

(***************************************************************************)
(* The Property Resolver on its own                                        *)
(***************************************************************************)
InitResolver ==
    /\ pc = "resolver"
    /\ run = 0
    /\ schema = <<>>
    /\ bundle \in Bundles
    /\ valueSets = SetValueSets(EmptyMap, bundle)
    /\ fhirTypes = <<>>
    /\ fhirTypesMap = EmptyMap
    /\ parentTypes = [keys |-> <<>>, map |-> EmptyMap]
    /\ todo = <<>>
    /\ files = EmptyMap
    /\ firstRun = EmptyMap
    /\ property \in PropertySet
    /\ outcome = Pending
    /\ lookupUrl = <<>>
    /\ flattened = NotFlattened
    /\ planValue = NoPlan
    /\ nextId = 1
    /\ selection = NoSelection
    /\ slots = NoSlots
    /\ inFlight = <<>>

Resolve ==
    /\ pc = "resolver"
    /\ outcome.status = "pending"
    /\ outcome' = IF ResolverThrows(property, valueSets)
                  THEN [status |-> "threw", fields |-> <<>>]
                  ELSE [status |-> "returned",
                        fields |-> getTypeScriptProperties(property, valueSets)]
    /\ UNCHANGED <<pc, run, schema, bundle, valueSets, fhirTypes, fhirTypesMap,
                   parentTypes, todo, files, firstRun, property,
                   lookupUrl, flattened, planValue, nextId,
                   selection, slots, inFlight>>

NextResolver == Resolve

SpecResolver == InitResolver /\ [][NextResolver]_vars

(***************************************************************************)
(* Inputs: the schema index (globalSchema.types)                           *)
(*                                                                         *)
(* An entry is a type name with its TypeSchema: whether it has a           *)
(* properties object, the properties in declaration order, and parentType. *)
(* Lines 91-99 keep Resource, BackboneElement, DomainResource,             *)
(* MetadataResource and lower-case names out of the index.                 *)
(***************************************************************************)
Entry(name, parentType, hasProperties, properties) ==
    [name |-> name, parentType |-> parentType,
     hasProperties |-> hasProperties, properties |-> properties]

Plain(name, code) == Def(name, "1", <<>>, << Tp(code) >>, <<>>, "")
Many(name, code) == Def(name, "*", <<>>, << Tp(code) >>, <<>>, "")

RecordProperties ==
    << Plain(<<"i","d">>, <<"i","d">>), Plain(<<"m","e","t","a">>, <<"M","e","t","a">>),
       Plain(<<"i","m","p","l","i","c","i","t","R","u","l","e","s">>, <<"u","r","i">>), Plain(<<"l","a","n","g","u","a","g","e">>, <<"c","o","d","e">>) >>

Pool ==
    << Entry(<<"P","a","t","i","e","n","t","L","i","n","k">>, <<"P","a","t","i","e","n","t">>, TRUE,
             RecordProperties \o << Plain(<<"o","t","h","e","r">>, <<"R","e","f","e","r","e","n","c","e">>) >>),
       Entry(<<"P","a","t","i","e","n","t","C","o","n","t","a","c","t">>, <<"P","a","t","i","e","n","t">>, TRUE,
             << Def(<<"g","e","n","d","e","r">>, "1", <<>>, << Tp(<<"c","o","d","e">>) >>, <<"u","r","n",":","v","s",":","s","t","a","t","u","s","|","4",".","0",".","1">>, "required"),
                Many(<<"t","e","l","e","c","o","m">>, <<"B","a","c","k","b","o","n","e","E","l","e","m","e","n","t">>) >>),
       Entry(<<"P","a","t","i","e","n","t">>, <<>>, TRUE,
             RecordProperties \o
             << Plain(<<"_","i","d">>, <<"E","l","e","m","e","n","t">>),
                Many(<<"c","o","n","t","a","c","t">>, <<"B","a","c","k","b","o","n","e","E","l","e","m","e","n","t">>),
                Def(<<"m","a","n","a","g","i","n","g","O","r","g","a","n","i","z","a","t","i","o","n">>, "1", <<>>,
                    << RefTo(<< OrganizationProfile >>) >>, <<>>, "") >>),
       Entry(<<"P","a","t","i","e","n","t","C","o","n","t","a","c","t","T","e","l","e","c","o","m">>, <<"P","a","t","i","e","n","t","C","o","n","t","a","c","t">>, TRUE,
             << Plain(<<"s","y","s","t","e","m">>, <<"u","r","i">>) >>),
       Entry(<<"P","a","t","i","e","n","t","C","o","n","t","a","c","t","P","o","i","n","t">>, <<"P","a","t","i","e","n","t">>, TRUE,
             << Plain(<<"v","a","l","u","e">>, <<"s","t","r","i","n","g">>) >>),
       Entry(<<"R","e","f","e","r","e","n","c","e">>, <<>>, TRUE,
             << Plain(<<"r","e","f","e","r","e","n","c","e">>, <<"s","t","r","i","n","g">>) >>),
       Entry(<<"B","u","n","d","l","e">>, <<>>, TRUE,
             << Many(<<"e","n","t","r","y">>, <<"B","a","c","k","b","o","n","e","E","l","e","m","e","n","t">>), Plain(<<"t","o","t","a","l">>, <<"u","n","s","i","g","n","e","d","I","n","t">>) >>),
       Entry(<<"B","u","n","d","l","e","E","n","t","r","y">>, <<"B","u","n","d","l","e">>, TRUE,
             << Plain(<<"r","e","s","o","u","r","c","e">>, <<"R","e","s","o","u","r","c","e","L","i","s","t">>), Plain(<<"f","u","l","l","U","r","l">>, <<"u","r","i">>) >>),
       Entry(<<"O","p","e","r","a","t","i","o","n","O","u","t","c","o","m","e">>, <<>>, TRUE,
             << Plain(<<"r","e","s","o","u","r","c","e">>, <<"R","e","s","o","u","r","c","e","L","i","s","t">>) >>),
       Entry(<<"C","o","n","t","a","i","n","e","r">>, <<>>, TRUE,
             << Def(<<"i","t","e","m">>, "*", <<"#","C","o","n","t","a","i","n","e","r",".","i","t","e","m",".","d","e","t","a","i","l">>, <<>>, <<>>, "") >>),
       Entry(<<"M","o","n","e","y","Q","u","a","n","t","i","t","y">>, <<>>, TRUE,
             << Plain(<<"v","a","l","u","e">>, <<"d","e","c","i","m","a","l">>) >>),
       Entry(<<"S","i","m","p","l","e","Q","u","a","n","t","i","t","y">>, <<>>, TRUE,
             << Plain(<<"v","a","l","u","e">>, <<"d","e","c","i","m","a","l">>) >>),
       Entry(<<"B","a","s","i","c">>, <<>>, TRUE, RecordProperties),
       Entry(<<"O","b","s","e","r","v","a","t","i","o","n">>, <<>>, TRUE,
             RecordProperties \o
             << Def(<<"v","a","l","u","e","[","x","]">>, "1", <<>>,
                    << Tp(<<"s","t","r","i","n","g">>), RefTo(<< PatientProfile, GroupProfile >>) >>, <<>>, ""),
                Def(<<"s","t","a","t","u","s">>, "*", <<>>, << Tp(<<"c","o","d","e">>) >>, <<"u","r","n",":","v","s",":","l","o","o","p">>, "required"),
                Plain(<<"s","u","b","j","e","c","t">>, <<"R","e","f","e","r","e","n","c","e">>) >>),
       Entry(<<"A","b","s","t","r","a","c","t">>, <<>>, FALSE, <<>>),
       Entry(<<"A","b","s","t","r","a","c","t","P","a","r","t">>, <<"A","b","s","t","r","a","c","t">>, TRUE,
             << Plain(<<"p","a","r","t">>, <<"s","t","r","i","n","g">>) >>),
       Entry(<<"E","m","p","t","y">>, <<>>, TRUE, <<>>),
       Entry(<<"E","m","p","t","y","P","a","r","t">>, <<"E","m","p","t","y">>, TRUE,
             << Plain(<<"p","a","r","t">>, <<"s","t","r","i","n","g">>) >>),
       Entry(<<"S","e","l","f","i","e">>, <<"S","e","l","f","i","e">>, TRUE,
             << Plain(<<"s","e","l","f">>, <<"b","o","o","l","e","a","n">>) >>),
       Entry(<<"U","n","t","y","p","e","d">>, <<>>, TRUE,
             << Def(<<"a","n","y","t","h","i","n","g">>, "1", <<>>, <<>>, <<>>, "") >>) >>

RECURSIVE Pick(_, _)
Pick(S, i) ==
    IF i > Len(Pool) THEN <<>>
    ELSE (IF i \in S THEN << Pool[i] >> ELSE <<>>) \o Pick(S, i + 1)

Schemas ==
    { Pick(S, 1) : S \in { T \in SUBSET DOMAIN Pool : Cardinality(T) \in 1..MaxTypes } }

(***************************************************************************)
(* Type Graph Builder (lines 54-73, 105-137)                               *)
(***************************************************************************)
baseResourceProperties == { <<"i","d">>, <<"m","e","t","a">>, <<"i","m","p","l","i","c","i","t","R","u","l","e","s">>, <<"l","a","n","g","u","a","g","e">> }
domainResourceProperties == { <<"t","e","x","t">>, <<"c","o","n","t","a","i","n","e","d">>, <<"e","x","t","e","n","s","i","o","n">>, <<"m","o","d","i","f","i","e","r","E","x","t","e","n","s","i","o","n">> }

containsAll(set, values) == \A value \in values : value \in set

KeptProperty(def) == ~StartsWith(def.name, <<"_">>)

\* buildType for an entry that has a properties object
buildType(entry) ==
    LET kept == SelectSeq(entry.properties, KeptProperty)
        propertyNames == { kept[i].name : i \in DOMAIN kept }
    IN  [inputName |-> entry.name,
         parentType |-> entry.parentType,
         outputName |-> entry.name,
         properties |-> [i \in DOMAIN kept |-> Prop(entry.name, kept[i])],
         subTypes |-> <<>>,
         resource |-> containsAll(propertyNames, baseResourceProperties),
         domainResource |-> containsAll(propertyNames, domainResourceProperties)]

\* the loop of lines 54-60 over the entries: the nodes list and the name map
RECURSIVE BuildAll(_, _, _)
BuildAll(entries, heap, map) ==
    IF entries = <<>> THEN [heap |-> heap, map |-> map]
    ELSE IF ~entries[1].hasProperties THEN BuildAll(Tail(entries), heap, map)
    ELSE BuildAll(Tail(entries),
                  Append(heap, buildType(entries[1])),
                  (entries[1].name :> (Len(heap) + 1)) @@ map)

\* the loop of lines 63-67: an object keeps its keys in first-insertion order
RECURSIVE CollectParents(_, _, _)
CollectParents(heap, i, acc) ==
    IF i > Len(heap) THEN acc
    ELSE IF IsTruthy(heap[i].parentType) THEN CollectParents(heap, i + 1, acc)
    ELSE CollectParents(heap, i + 1,
            [keys |-> IF heap[i].outputName \in DOMAIN acc.map
                      THEN acc.keys ELSE Append(acc.keys, heap[i].outputName),
             map |-> (heap[i].outputName :> i) @@ acc.map])

\* the loop of lines 69-73 from node i on; line 71 throws a TypeError when
\* fhirTypesMap has no node for the parent name
RECURSIVE PushSubTypes(_, _, _)
PushSubTypes(heap, map, i) ==
    IF i > Len(heap) THEN [heap |-> heap, threw |-> FALSE]
    ELSE IF ~IsTruthy(heap[i].parentType) THEN PushSubTypes(heap, map, i + 1)
    ELSE IF heap[i].parentType \notin DOMAIN map THEN [heap |-> heap, threw |-> TRUE]
    ELSE PushSubTypes(
            [heap EXCEPT ![map[heap[i].parentType]].subTypes = Append(@, i)],
            map, i + 1)

(***************************************************************************)
(* Import Resolver (lines 247-281)                                         *)
(***************************************************************************)
cleanReferencedType(typeName) ==
    IF typeName = <<"T">> THEN << <<"R","e","s","o","u","r","c","e">> >>
    ELSE IF \/ StartsWith(typeName, <<"'">>)
            \/ isLowerCase(charAt0(typeName))
            \/ typeName = <<"B","u","n","d","l","e","E","n","t","r","y","<","T",">","[","]">>
         THEN <<>>
    ELSE IF StartsWith(typeName, <<"R","e","f","e","r","e","n","c","e","<">>)
         THEN LET start == IndexOf(typeName, <<"<">>) + 1
                  end == IndexOf(typeName, <<">">>)
              IN  << <<"R","e","f","e","r","e","n","c","e">> >> \o Split(SubSeq(typeName, start, end - 1), <<" ","|"," ">>)
    ELSE << Replace(typeName, <<"[","]">>, <<>>) >>

\* the names that the properties of one node add to referencedTypes
ReferencedByProperties(properties, vs) ==
    UNION { UNION { Range(cleanReferencedType(getTypeScriptProperties(properties[i], vs)[j].typeName)) :
                      j \in DOMAIN getTypeScriptProperties(properties[i], vs) } :
              i \in DOMAIN properties }

\* buildImports without the implicit import of lines 260-262
RECURSIVE buildImports_NoImplicit(_, _, _)
buildImports_NoImplicit(heap, id, vs) ==
    LET fhirType == heap[id]
        subs == { buildImports_NoImplicit(heap, fhirType.subTypes[i], vs) : i \in DOMAIN fhirType.subTypes }
    IN  [includedTypes |-> {fhirType.outputName} \cup UNION { s.includedTypes : s \in subs },
         referencedTypes |->
             ReferencedByProperties(fhirType.properties, vs)
             \cup UNION { s.referencedTypes : s \in subs }]

RECURSIVE buildImports(_, _, _)
buildImports(heap, id, vs) ==
    LET fhirType == heap[id]
        subs == { buildImports(heap, fhirType.subTypes[i], vs) : i \in DOMAIN fhirType.subTypes }
    IN  [includedTypes |-> {fhirType.outputName} \cup UNION { s.includedTypes : s \in subs },
         referencedTypes |->
             ReferencedByProperties(fhirType.properties, vs)
             \cup UNION { s.referencedTypes : s \in subs }
             \cup (IF fhirType.outputName = <<"R","e","f","e","r","e","n","c","e">> THEN { <<"R","e","s","o","u","r","c","e">> } ELSE {})]

\* the nodes buildImports walks: the node and its subTypes at every depth
RECURSIVE Tree(_, _)
Tree(heap, id) == {id} \cup UNION { Tree(heap, heap[id].subTypes[i]) : i \in DOMAIN heap[id].subTypes }

\* buildImports throws on the first property the Property Resolver throws on
ImportsThrow(heap, id, vs) ==
    \E n \in Tree(heap, id) : \E i \in DOMAIN heap[n].properties :
        ResolverThrows(heap[n].properties[i], vs)

(***************************************************************************)
(* Emitter (lines 139-245).  A file is the sequence of the strings given   *)
(* to FileBuilder.append; blank lines and doc comments are left out.       *)
(***************************************************************************)
IndexFile == <<"i","n","d","e","x",".","d",".","t","s">>
ResourceFile == <<"R","e","s","o","u","r","c","e",".","d",".","t","s">>
ResourceTypeFile == <<"R","e","s","o","u","r","c","e","T","y","p","e",".","d",".","t","s">>
UnitFile(outputName) == outputName \o <<".","d",".","t","s">>

ExportLine(name) == <<"e","x","p","o","r","t"," ","*"," ","f","r","o","m"," ","'",".","/">> \o name \o <<"'",";">>
ImportLine(name) == <<"i","m","p","o","r","t"," ","{"," ">> \o name \o <<" ","}"," ","f","r","o","m"," ","'",".","/">> \o name \o <<"'",";">>

NotAliased(name) == name # <<"M","o","n","e","y","Q","u","a","n","t","i","t","y">> /\ name # <<"S","i","m","p","l","e","Q","u","a","n","t","i","t","y">>

\* writeIndexFile without the exclusion of line 142
writeIndexFile_WithAliases(names) ==
    LET exported == Sort(names \o << <<"R","e","s","o","u","r","c","e">>, <<"R","e","s","o","u","r","c","e","T","y","p","e">> >>)
    IN  [i \in DOMAIN exported |-> ExportLine(exported[i])]

writeIndexFile(names) ==
    LET exported == SelectSeq(Sort(names \o << <<"R","e","s","o","u","r","c","e">>, <<"R","e","s","o","u","r","c","e","T","y","p","e">> >>), NotAliased)
    IN  [i \in DOMAIN exported |-> ExportLine(exported[i])]

writeResourceFile(names) ==
    [i \in DOMAIN names |-> ImportLine(names[i])]
    \o [i \in DOMAIN names |->
          IF i = 1 THEN <<"e","x","p","o","r","t"," ","t","y","p","e"," ","R","e","s","o","u","r","c","e"," ","="," ">> \o names[1]
          ELSE IF i # Len(names) THEN <<"|"," ">> \o names[i]
          ELSE <<"|"," ">> \o names[i] \o <<";">>]

writeResourceTypeFile ==
    << <<"i","m","p","o","r","t"," ","{"," ","R","e","s","o","u","r","c","e"," ","}"," ","f","r","o","m"," ","'",".","/","R","e","s","o","u","r","c","e","'",";">>,
       <<"e","x","p","o","r","t"," ","t","y","p","e"," ","R","e","s","o","u","r","c","e","T","y","p","e"," ","="," ","R","e","s","o","u","r","c","e","[","'","r","e","s","o","u","r","c","e","T","y","p","e","'","]",";">>,
       <<"e","x","p","o","r","t"," ","t","y","p","e"," ","E","x","t","r","a","c","t","R","e","s","o","u","r","c","e","<","K"," ","e","x","t","e","n","d","s"," ","R","e","s","o","u","r","c","e","T","y","p","e",">"," ","="," ","E","x","t","r","a","c","t","<","R","e","s","o","u","r","c","e",","," ","{"," ","r","e","s","o","u","r","c","e","T","y","p","e",":"," ","K"," ","}",">",";">> >>

\* Object.keys(parentTypes).sort() (line 76)
ParentNames(parents) == Sort(parents.keys)

\* ResourceNames without the filter of line 79
ResourceNames_Unfiltered(parents, heap) == Sort(parents.keys)

\* the argument of writeResourceFile (lines 78-81)
ResourceNames(parents, heap) ==
    LET IsResource(name) == heap[parents.map[name]].resource
    IN  Sort(SelectSeq(parents.keys, IsResource))

genericTypes == { <<"B","u","n","d","l","e">>, <<"B","u","n","d","l","e","E","n","t","r","y">>, <<"R","e","f","e","r","e","n","c","e">> }

genericModifier(resourceType) ==
    IF resourceType \in genericTypes THEN <<"<","T"," ","e","x","t","e","n","d","s"," ","R","e","s","o","u","r","c","e"," ","="," ","R","e","s","o","u","r","c","e",">">> ELSE <<>>

InterfaceHeader(resourceType) == <<"e","x","p","o","r","t"," ","i","n","t","e","r","f","a","c","e"," ">> \o resourceType \o genericModifier(resourceType) \o <<" ","{">>

writeInterfaceProperty(prop, vs) ==
    [j \in DOMAIN getTypeScriptProperties(prop, vs) |->
        getTypeScriptProperties(prop, vs)[j].name \o <<"?",":"," ">>
        \o getTypeScriptProperties(prop, vs)[j].typeName \o <<";">>]

\* subTypes.sort((t1, t2) => t1.outputName.localeCompare(t2.outputName)): stable
RECURSIVE InsertByName(_, _, _)
InsertByName(heap, x, s) ==
    IF s = <<>> THEN <<x>>
    ELSE IF LocaleLess(heap[x].outputName, heap[s[Len(s)]].outputName)
         THEN Append(InsertByName(heap, x, SubSeq(s, 1, Len(s) - 1)), s[Len(s)])
    ELSE Append(s, x)

RECURSIVE SortByName(_, _)
SortByName(heap, s) ==
    IF s = <<>> THEN <<>>
    ELSE InsertByName(heap, s[Len(s)], SortByName(heap, SubSeq(s, 1, Len(s) - 1)))

RECURSIVE writeInterface(_, _, _)
writeInterface(heap, id, vs) ==
    LET fhirType == heap[id]
        sorted == SortByName(heap, fhirType.subTypes)
    IN  IF fhirType.properties = <<>> THEN <<>>
        ELSE << InterfaceHeader(fhirType.outputName) >>
             \o (IF fhirType.resource
                 THEN << <<"r","e","a","d","o","n","l","y"," ","r","e","s","o","u","r","c","e","T","y","p","e",":"," ","'">> \o fhirType.outputName \o <<"'",";">> >>
                 ELSE <<>>)
             \o Concat([i \in DOMAIN fhirType.properties |->
                          writeInterfaceProperty(fhirType.properties[i], vs)])
             \o (IF fhirType.outputName = <<"R","e","f","e","r","e","n","c","e">> THEN << <<"r","e","s","o","u","r","c","e","?",":"," ","T",";">> >> ELSE <<>>)
             \o << <<"}">> >>
             \o Concat([i \in DOMAIN sorted |-> writeInterface(heap, sorted[i], vs)])

\* the nodes whose subTypes writeInterface sorts in place (line 232)
RECURSIVE Written(_, _)
Written(heap, id) ==
    IF heap[id].properties = <<>> THEN {}
    ELSE {id} \cup UNION { Written(heap, heap[id].subTypes[i]) : i \in DOMAIN heap[id].subTypes }

\* UnitLines without the test of line 189
UnitLines_ImportAll(heap, id, vs) ==
    LET imports == buildImports(heap, id, vs)
        imported == SortSet(imports.referencedTypes)
    IN  [i \in DOMAIN imported |-> ImportLine(imported[i])] \o writeInterface(heap, id, vs)

\* the lines of writeInterfaceFile for a node that gets a file (lines 183-194)
UnitLines(heap, id, vs) ==
    LET imports == buildImports(heap, id, vs)
        sortedReferenced == SortSet(imports.referencedTypes)
        NotIncluded(name) == name \notin imports.includedTypes
        imported == SelectSeq(sortedReferenced, NotIncluded)
    IN  [i \in DOMAIN imported |-> ImportLine(imported[i])] \o writeInterface(heap, id, vs)

(***************************************************************************)
(* main() (lines 41-85), one action per step                               *)
(***************************************************************************)
Init ==
    /\ pc = "main"
    /\ run = 0
    /\ schema \in Schemas
    /\ bundle \in Bundles
    /\ valueSets = EmptyMap
    /\ fhirTypes = <<>>
    /\ fhirTypesMap = EmptyMap
    /\ parentTypes = [keys |-> <<>>, map |-> EmptyMap]
    /\ todo = <<>>
    /\ files = EmptyMap
    /\ firstRun = EmptyMap
    /\ property = NoProperty
    /\ outcome = Pending
    /\ lookupUrl = <<>>
    /\ flattened = NotFlattened
    /\ planValue = NoPlan
    /\ nextId = 1
    /\ selection = NoSelection
    /\ slots = NoSlots
    /\ inFlight = <<>>

\* main() is called; lines 42-52 index the definitions and load the corpus.
\* Indexing the same definition files again leaves globalSchema.types (schema)
\* as it is; valueSets, fhirTypes and fhirTypesMap keep what earlier calls
\* of main() put there.
LoadValueSets ==
    /\ pc = "main"
    /\ run < MaxRuns
    /\ run' = run + 1
    /\ valueSets' = SetValueSets(valueSets, bundle)
    /\ pc' = "buildTypes"
    /\ UNCHANGED <<schema, bundle, fhirTypes, fhirTypesMap, parentTypes, todo,
                   files, firstRun, property, outcome,
                   lookupUrl, flattened, planValue, nextId,
                   selection, slots, inFlight>>

\* lines 54-60
BuildTypes ==
    /\ pc = "buildTypes"
    /\ LET built == BuildAll(schema, fhirTypes, fhirTypesMap)
       IN  /\ fhirTypes' = built.heap
           /\ fhirTypesMap' = built.map
    /\ pc' = "nest"
    /\ UNCHANGED <<run, schema, bundle, valueSets, parentTypes, todo,
                   files, firstRun, property, outcome,
                   lookupUrl, flattened, planValue, nextId,
                   selection, slots, inFlight>>

\* lines 62-73, every parent name known
NestTypes ==
    /\ pc = "nest"
    /\ ~PushSubTypes(fhirTypes, fhirTypesMap, 1).threw
    /\ parentTypes' = CollectParents(fhirTypes, 1, [keys |-> <<>>, map |-> EmptyMap])
    /\ fhirTypes' = PushSubTypes(fhirTypes, fhirTypesMap, 1).heap
    /\ pc' = "writeIndexFile"
    /\ UNCHANGED <<run, schema, bundle, valueSets, fhirTypesMap, todo,
                   files, firstRun, property, outcome,
                   lookupUrl, flattened, planValue, nextId,
                   selection, slots, inFlight>>

\* lines 62-73, line 71 throws: main() ends with the nodes pushed so far
NestTypesThrows ==
    /\ pc = "nest"
    /\ PushSubTypes(fhirTypes, fhirTypesMap, 1).threw
    /\ parentTypes' = CollectParents(fhirTypes, 1, [keys |-> <<>>, map |-> EmptyMap])
    /\ fhirTypes' = PushSubTypes(fhirTypes, fhirTypesMap, 1).heap
    /\ pc' = "threw"
    /\ UNCHANGED <<run, schema, bundle, valueSets, fhirTypesMap, todo,
                   files, firstRun, property, outcome,
                   lookupUrl, flattened, planValue, nextId,
                   selection, slots, inFlight>>

\* lines 75-76
WriteIndexFile ==
    /\ pc = "writeIndexFile"
    /\ files' = (IndexFile :> writeIndexFile(ParentNames(parentTypes))) @@ files
    /\ pc' = "writeResourceFile"
    /\ UNCHANGED <<run, schema, bundle, valueSets, fhirTypes, fhirTypesMap,
                   parentTypes, todo, firstRun, property, outcome,
                   lookupUrl, flattened, planValue, nextId,
                   selection, slots, inFlight>>

\* lines 77-82
WriteResourceFile ==
    /\ pc = "writeResourceFile"
    /\ files' = (ResourceFile :> writeResourceFile(ResourceNames(parentTypes, fhirTypes))) @@ files
    /\ pc' = "writeResourceTypeFile"
    /\ UNCHANGED <<run, schema, bundle, valueSets, fhirTypes, fhirTypesMap,
                   parentTypes, todo, firstRun, property, outcome,
                   lookupUrl, flattened, planValue, nextId,
                   selection, slots, inFlight>>

\* line 83, and the evaluation of Object.values(parentTypes) of line 84
WriteResourceTypeFile ==
    /\ pc = "writeResourceTypeFile"
    /\ files' = (ResourceTypeFile :> writeResourceTypeFile) @@ files
    /\ todo' = [i \in DOMAIN parentTypes.keys |-> parentTypes.map[parentTypes.keys[i]]]
    /\ pc' = "writeInterfaceFile"
    /\ UNCHANGED <<run, schema, bundle, valueSets, fhirTypes, fhirTypesMap,
                   parentTypes, firstRun, property, outcome,
                   lookupUrl, flattened, planValue, nextId,
                   selection, slots, inFlight>>

\* writeInterfaceFile returns at line 180: nothing to write
SkipInterfaceFile ==
    /\ pc = "writeInterfaceFile"
    /\ todo # <<>>
    /\ fhirTypes[todo[1]].properties = <<>>
    /\ fhirTypes[todo[1]].subTypes = <<>>
    /\ todo' = Tail(todo)
    /\ UNCHANGED <<pc, run, schema, bundle, valueSets, fhirTypes, fhirTypesMap,
                   parentTypes, files, firstRun, property, outcome,
                   lookupUrl, flattened, planValue, nextId,
                   selection, slots, inFlight>>

\* writeInterfaceFile for the next node of line 84 (lines 183-195)
WriteInterfaceFile ==
    /\ pc = "writeInterfaceFile"
    /\ todo # <<>>
    /\ fhirTypes[todo[1]].properties # <<>> \/ fhirTypes[todo[1]].subTypes # <<>>
    /\ ~ImportsThrow(fhirTypes, todo[1], valueSets)
    /\ files' = (UnitFile(fhirTypes[todo[1]].outputName) :>
                   UnitLines(fhirTypes, todo[1], valueSets)) @@ files
    /\ fhirTypes' = [n \in DOMAIN fhirTypes |->
                       IF n \in Written(fhirTypes, todo[1])
                       THEN [fhirTypes[n] EXCEPT !.subTypes = SortByName(fhirTypes, @)]
                       ELSE fhirTypes[n]]
    /\ todo' = Tail(todo)
    /\ UNCHANGED <<pc, run, schema, bundle, valueSets, fhirTypesMap,
                   parentTypes, firstRun, property, outcome,
                   lookupUrl, flattened, planValue, nextId,
                   selection, slots, inFlight>>

\* buildImports (line 185) throws: main() ends before the file is written
WriteInterfaceFileThrows ==
    /\ pc = "writeInterfaceFile"
    /\ todo # <<>>
    /\ fhirTypes[todo[1]].properties # <<>> \/ fhirTypes[todo[1]].subTypes # <<>>
    /\ ImportsThrow(fhirTypes, todo[1], valueSets)
    /\ pc' = "threw"
    /\ UNCHANGED <<run, schema, bundle, valueSets, fhirTypes, fhirTypesMap,
                   parentTypes, todo, files, firstRun, property, outcome,
                   lookupUrl, flattened, planValue, nextId,
                   selection, slots, inFlight>>

\* main() returns (line 85)
Return ==
    /\ pc = "writeInterfaceFile"
    /\ todo = <<>>
    /\ pc' = "main"
    /\ firstRun' = IF run = 1 THEN files ELSE firstRun
    /\ UNCHANGED <<run, schema, bundle, valueSets, fhirTypes, fhirTypesMap,
                   parentTypes, todo, files, property, outcome,
                   lookupUrl, flattened, planValue, nextId,
                   selection, slots, inFlight>>

Next ==
    \/ LoadValueSets
    \/ BuildTypes
    \/ NestTypes
    \/ NestTypesThrows
    \/ WriteIndexFile
    \/ WriteResourceFile
    \/ WriteResourceTypeFile
    \/ SkipInterfaceFile
    \/ WriteInterfaceFile
    \/ WriteInterfaceFileThrows
    \/ Return

Spec == Init /\ [][Next]_vars

(***************************************************************************)
(* Reading the written files back                                          *)
(***************************************************************************)
ImportPrefix == <<"i","m","p","o","r","t"," ","{"," ">>
ExportPrefix == <<"e","x","p","o","r","t"," ","*"," ","f","r","o","m"," ","'",".","/">>
InterfacePrefix == <<"e","x","p","o","r","t"," ","i","n","t","e","r","f","a","c","e"," ">>
UnionPrefix == <<"e","x","p","o","r","t"," ","t","y","p","e"," ","R","e","s","o","u","r","c","e"," ","="," ">>

After(line, prefix) == SubSeq(line, Len(prefix) + 1, Len(line))

\* the part of s before the first occurrence of p (all of s when there is none)
Before(s, p) == IF IndexOf(s, p) = 0 THEN s ELSE SubSeq(s, 1, IndexOf(s, p) - 1)

IsImportLine(line) == StartsWith(line, ImportPrefix)
IsExportLine(line) == StartsWith(line, ExportPrefix)
IsInterfaceLine(line) == StartsWith(line, InterfacePrefix)

\* the names a file imports, in written order
ImportedNames(lines) ==
    LET imports == SelectSeq(lines, IsImportLine)
    IN  [i \in DOMAIN imports |-> Before(After(imports[i], ImportPrefix), <<" ">>)]

\* the names an index file exports, in written order
ExportedNames(lines) ==
    LET exports == SelectSeq(lines, IsExportLine)
    IN  [i \in DOMAIN exports |-> Before(After(exports[i], ExportPrefix), <<"'">>)]

\* the type name an interface header declares
DeclaredName(line) == Before(Before(After(line, InterfacePrefix), <<" ">>), <<"<">>)

\* the names a file declares, in written order
DeclaredNames(lines) ==
    LET headers == SelectSeq(lines, IsInterfaceLine)
    IN  [i \in DOMAIN headers |-> DeclaredName(headers[i])]

\* the disjuncts of the aggregate union type, in written order
Disjuncts(lines) ==
    LET IsDisjunctLine(line) == StartsWith(line, UnionPrefix) \/ StartsWith(line, <<"|"," ">>)
        rows == SelectSeq(lines, IsDisjunctLine)
    IN  [i \in DOMAIN rows |->
            Before(IF StartsWith(rows[i], UnionPrefix)
                   THEN After(rows[i], UnionPrefix) ELSE After(rows[i], <<"|"," ">>), <<";">>)]

StrictlyIncreasing(names) ==
    \A i, j \in DOMAIN names : i < j => CodeUnitLess(names[i], names[j])

\* the unit files on disk, by the top-level name they are written for
UnitNames == { name \in Range(parentTypes.keys) : UnitFile(name) \in DOMAIN files }

\* main() is past the nesting pass of the current run
Nested == pc \in { "writeIndexFile", "writeResourceFile", "writeResourceTypeFile",
                   "writeInterfaceFile" } \/ (pc = "main" /\ run >= 1)

\* schema entries that become nodes, and those of them without a parent
BuiltEntries == { schema[i] : i \in { j \in DOMAIN schema : schema[j].hasProperties } }
TopLevelEntries == { e \in BuiltEntries : ~IsTruthy(e.parentType) }
RecordEntries ==
    { e \in TopLevelEntries :
        \A marker \in baseResourceProperties :
            \E i \in DOMAIN e.properties : e.properties[i].name = marker }

(***************************************************************************)
(* C1: two runs of main() on the same schema index and enumeration corpus  *)
(* leave the same output set: when the second run has returned, every file *)
(* has the name and the content the first run gave it.                     *)
(***************************************************************************)
C1_RunsIdentical == (pc = "main" /\ run >= 2) => files = firstRun

(***************************************************************************)
(* C2: a property whose upper cardinality allows more than one value       *)
(* ('*' or a number above 1) resolves to sequence-typed fields only, and a *)
(* property bounded to one to fields that are not sequences, under every   *)
(* resolver rule.                                                          *)
(***************************************************************************)
IsSequenceType(typeName) == EndsWith(typeName, <<"[","]">>)

C2_CardinalityFaithful ==
    outcome.status = "returned" =>
        \A i \in DOMAIN outcome.fields :
            /\ property.max \in { "*", "2" } => IsSequenceType(outcome.fields[i].typeName)
            /\ property.max = "1" => ~IsSequenceType(outcome.fields[i].typeName)

(***************************************************************************)
(* C3: a field whose name ends in '[x]' with N type alternatives expands   *)
(* into exactly N fields in the order of the alternatives, the i-th named  *)
(* base name + capitalized i-th type code and typed by resolving the i-th  *)
(* alternative on its own.                                                 *)
(***************************************************************************)
IsChoiceExpansion ==
    /\ Len(outcome.fields) = Len(property.type)
    /\ \A i \in DOMAIN property.type :
          /\ outcome.fields[i].name =
                SubSeq(property.name, 1, Len(property.name) - 3)
                \o << toUpperCase(property.type[i].code[1]) >> \o Tail(property.type[i].code)
          /\ outcome.fields[i].typeName =
                MultiWrapped(property, BaseTypeForProperty(
                    [property EXCEPT !.type = << property.type[i] >>], property.type[i], valueSets))

\* as stated: every '[x]' property
C3_ChoiceExpandsAlways ==
    (outcome.status = "returned" /\ EndsWith(property.name, <<"[","x","]">>)) => IsChoiceExpansion

\* amended: every '[x]' property that carries no content-reference
C3_ChoiceExpansion ==
    (/\ outcome.status = "returned"
     /\ EndsWith(property.name, <<"[","x","]">>)
     /\ ~IsTruthy(property.contentReference)) => IsChoiceExpansion

C3_Witness ==
    /\ outcome.status = "returned"
    /\ EndsWith(property.name, <<"[","x","]">>)
    /\ ~IsTruthy(property.contentReference)
    /\ Len(property.type) = 3
    /\ Len(outcome.fields) = 3
    /\ outcome.fields[2].name = <<"v","a","l","u","e","B","o","o","l","e","a","n">>

(***************************************************************************)
(* C4: a string-family field bound with strength required to a non-exempt  *)
(* enumeration URL has as base type the literal union of the codes the     *)
(* Value-Set Resolver returns, in that order and with duplicates kept;     *)
(* when the resolver returns no code the base type is string and the       *)
(* resolver call does not fail; any other strength gives no literal union. *)
(***************************************************************************)
\* the field's type without the sequence wrapper of line 409-414
BaseOfField(typeName) ==
    IF property.max # "*" THEN typeName
    ELSE LET element == SubSeq(typeName, 1, Len(typeName) - 2)
         IN  IF StartsWith(element, <<"(">>) /\ EndsWith(element, <<")">>)
             THEN SubSeq(element, 2, Len(element) - 1)
             ELSE element

\* the codes of a literal union 'c1' | ... | 'cn'
LiteralCodes(baseType) == Split(SubSeq(baseType, 2, Len(baseType) - 1), <<"'"," ","|"," ","'">>)

IsLiteralUnion(baseType) == StartsWith(baseType, <<"'">>) /\ EndsWith(baseType, <<"'">>)

\* the property goes through the primitive mapping, field i from alternative i
ThroughPrimitiveMapping ==
    /\ ~IsResourceCarrier(property)
    /\ ~IsEntryCarrier(property)
    /\ ~IsTruthy(property.contentReference)

StringFields ==
    { i \in DOMAIN outcome.fields : property.type[i].code \in StringCodes }

C4_EnumerationSubstitution ==
    /\ (outcome.status = "returned" /\ ThroughPrimitiveMapping) =>
          \A i \in StringFields :
             LET baseType == BaseOfField(outcome.fields[i].typeName)
                 values == getValueSetValues(property.valueSet, valueSets)
             IN  /\ (CallsValueSetResolver(property) /\ Len(values) >= 1) =>
                        IsLiteralUnion(baseType) /\ LiteralCodes(baseType) = values
                 /\ (CallsValueSetResolver(property) /\ Len(values) = 0) =>
                        baseType = <<"s","t","r","i","n","g">>
                 /\ property.strength # "required" => ~Includes(baseType, <<"'">>)
    /\ (/\ outcome.status = "threw"
        /\ property.type # <<>>) => ValueSetOverflows(property.valueSet, valueSets)

C4_Witness ==
    /\ outcome.status = "returned"
    /\ ThroughPrimitiveMapping
    /\ property.max = "*"
    /\ property.valueSet = <<"u","r","n",":","v","s",":","o","v","e","r","l","a","p">>
    /\ bundle = BundleA
    /\ StringFields # {}
    /\ \E i \in StringFields :
          LiteralCodes(BaseOfField(outcome.fields[i].typeName)) = << <<"a">>, <<"b">>, <<"a">>, <<"b">>, <<"c">> >>

(***************************************************************************)
(* C5: the import list of every written unit holds no output name of the   *)
(* unit's own top-level type or of its nested children at any depth, no    *)
(* type-parameter reference (T, BundleEntry<T>), and is in sorted order    *)
(* without repetition.                                                     *)
(***************************************************************************)
OwnNames(name) == { fhirTypes[n].outputName : n \in Tree(fhirTypes, parentTypes.map[name]) }

TypeParameterReferences == { <<"T">>, <<"B","u","n","d","l","e","E","n","t","r","y","<","T",">">>, <<"B","u","n","d","l","e","E","n","t","r","y","<","T",">","[","]">> }

C5_ImportMinimality ==
    Nested =>
        \A name \in UnitNames :
            LET imported == ImportedNames(files[UnitFile(name)])
            IN  /\ Range(imported) \cap OwnNames(name) = {}
                /\ Range(imported) \cap TypeParameterReferences = {}
                /\ StrictlyIncreasing(imported)

C5_Witness ==
    /\ pc = "main"
    /\ run >= 1
    /\ <<"P","a","t","i","e","n","t">> \in UnitNames
    /\ DeclaredNames(files[UnitFile(<<"P","a","t","i","e","n","t">>)]) = << <<"P","a","t","i","e","n","t">>, <<"P","a","t","i","e","n","t","C","o","n","t","a","c","t">>, <<"P","a","t","i","e","n","t","L","i","n","k">> >>
    /\ <<"c","o","n","t","a","c","t","?",":"," ","P","a","t","i","e","n","t","C","o","n","t","a","c","t","[","]",";">> \in Range(files[UnitFile(<<"P","a","t","i","e","n","t">>)])
    /\ ImportedNames(files[UnitFile(<<"P","a","t","i","e","n","t">>)]) =
          << <<"M","e","t","a">>, <<"O","r","g","a","n","i","z","a","t","i","o","n">>, <<"P","a","t","i","e","n","t","C","o","n","t","a","c","t","T","e","l","e","c","o","m">>, <<"R","e","f","e","r","e","n","c","e">> >>

(***************************************************************************)
(* C6: the disjunct list of the aggregate union type in Resource.d.ts is   *)
(* exactly the sorted set of the output names of the top-level types       *)
(* classified as record: each once, in sorted order, no nested type and no *)
(* non-record type, for any number of record types.                        *)
(***************************************************************************)
C6_UnionCompleteness ==
    ResourceFile \in DOMAIN files =>
        LET disjuncts == Disjuncts(files[ResourceFile])
        IN  /\ Range(disjuncts) = { e.name : e \in RecordEntries }
            /\ StrictlyIncreasing(disjuncts)

C6_Witness ==
    /\ ResourceFile \in DOMAIN files
    /\ Disjuncts(files[ResourceFile]) = << <<"B","a","s","i","c">>, <<"P","a","t","i","e","n","t">> >>
    /\ \E i \in DOMAIN schema : schema[i].name = <<"P","a","t","i","e","n","t","L","i","n","k">>

(***************************************************************************)
(* C7: the export list of index.d.ts is the sorted set of all top-level    *)
(* type names plus Resource and ResourceType, minus MoneyQuantity and      *)
(* SimpleQuantity: each name once, no nested type name.                    *)
(***************************************************************************)
C7_IndexCompleteness ==
    IndexFile \in DOMAIN files =>
        LET exported == ExportedNames(files[IndexFile])
        IN  /\ Range(exported) =
                  ({ e.name : e \in TopLevelEntries } \cup { <<"R","e","s","o","u","r","c","e">>, <<"R","e","s","o","u","r","c","e","T","y","p","e">> })
                  \ { <<"M","o","n","e","y","Q","u","a","n","t","i","t","y">>, <<"S","i","m","p","l","e","Q","u","a","n","t","i","t","y">> }
            /\ StrictlyIncreasing(exported)
            /\ Len(exported) = Len(files[IndexFile])

C7_Witness ==
    /\ IndexFile \in DOMAIN files
    /\ \E i \in DOMAIN schema : schema[i].name = <<"M","o","n","e","y","Q","u","a","n","t","i","t","y">>
    /\ \E i \in DOMAIN schema : schema[i].name = <<"P","a","t","i","e","n","t","C","o","n","t","a","c","t">>
    /\ ExportedNames(files[IndexFile]) = << <<"P","a","t","i","e","n","t">>, <<"R","e","s","o","u","r","c","e">>, <<"R","e","s","o","u","r","c","e","T","y","p","e">> >>

(***************************************************************************)
(* C8: for the type Container whose property item has upper cardinality    *)
(* '*' and content-reference #Container.item.detail, the written field     *)
(* item is a sequence of the path-derived type, and resolving the          *)
(* content-reference makes no type node and no declaration of its own.     *)
(***************************************************************************)
ContainerWritten ==
    /\ UnitFile(<<"C","o","n","t","a","i","n","e","r">>) \in DOMAIN files
    /\ \E i \in DOMAIN schema :
          /\ schema[i].name = <<"C","o","n","t","a","i","n","e","r">>
          /\ \E k \in DOMAIN schema[i].properties :
                /\ schema[i].properties[k].name = <<"i","t","e","m">>
                /\ schema[i].properties[k].max = "*"
                /\ schema[i].properties[k].contentReference = <<"#","C","o","n","t","a","i","n","e","r",".","i","t","e","m",".","d","e","t","a","i","l">>

\* every node and every written declaration is that of a schema entry
NothingFabricated ==
    /\ \A n \in DOMAIN fhirTypes : fhirTypes[n].outputName \in { e.name : e \in BuiltEntries }
    /\ \A f \in DOMAIN files :
          Range(DeclaredNames(files[f])) \subseteq { e.name : e \in BuiltEntries }

\* as stated: the field is a sequence of ContainerItem
C8_ItemIsContainerItem ==
    ContainerWritten =>
        /\ <<"i","t","e","m","?",":"," ","C","o","n","t","a","i","n","e","r","I","t","e","m","[","]",";">> \in Range(files[UnitFile(<<"C","o","n","t","a","i","n","e","r">>)])
        /\ NothingFabricated

\* amended: the field is a sequence of ContainerItemDetail, all three segments
C8_ItemIsPathDerived ==
    ContainerWritten =>
        /\ <<"i","t","e","m","?",":"," ","C","o","n","t","a","i","n","e","r","I","t","e","m","D","e","t","a","i","l","[","]",";">> \in Range(files[UnitFile(<<"C","o","n","t","a","i","n","e","r">>)])
        /\ <<"i","t","e","m","?",":"," ","C","o","n","t","a","i","n","e","r","I","t","e","m","[","]",";">> \notin Range(files[UnitFile(<<"C","o","n","t","a","i","n","e","r">>)])
        /\ DeclaredNames(files[UnitFile(<<"C","o","n","t","a","i","n","e","r">>)]) = << <<"C","o","n","t","a","i","n","e","r">> >>
        /\ NothingFabricated

C8_Witness ==
    /\ ContainerWritten
    /\ pc = "main"
    /\ run >= 1
    /\ Len(schema) >= 2
    /\ ImportedNames(files[UnitFile(<<"C","o","n","t","a","i","n","e","r">>)]) = << <<"C","o","n","t","a","i","n","e","r","I","t","e","m","D","e","t","a","i","l">> >>

(***************************************************************************)
(* C9: every written unit in which a generic carrier type appears imports  *)
(* the aggregate union type Resource, also when no property type names it: *)
(* the unit declaring Reference, the units declaring Bundle and            *)
(* BundleEntry, and every unit with a property typed Reference or          *)
(* Reference<...>.                                                         *)
(***************************************************************************)
Declares(lines, name) == name \in Range(DeclaredNames(lines))

\* the type expression of a field line 'name?: type;'
FieldType(line) == Before(After(line, Before(line, <<"?",":"," ">>) \o <<"?",":"," ">>), <<";">>)

IsFieldLine(line) == Includes(line, <<"?",":"," ">>)

HasReferenceField(lines) ==
    \E i \in DOMAIN lines :
        /\ IsFieldLine(lines[i])
        /\ \/ FieldType(lines[i]) \in { <<"R","e","f","e","r","e","n","c","e">>, <<"R","e","f","e","r","e","n","c","e","[","]">> }
           \/ StartsWith(FieldType(lines[i]), <<"R","e","f","e","r","e","n","c","e","<">>)

HasTypeParameterField(lines) ==
    \E i \in DOMAIN lines : IsFieldLine(lines[i]) /\ FieldType(lines[i]) = <<"T">>

ImportsResource(lines) == <<"R","e","s","o","u","r","c","e">> \in Range(ImportedNames(lines))

HeaderOf(lines, i) ==
    lines[CHOOSE h \in 1..i :
            /\ IsInterfaceLine(lines[h])
            /\ \A k \in (h + 1)..i : ~IsInterfaceLine(lines[k])]

UsesTypeParameter(line) ==
    IsFieldLine(line) /\ FieldType(line) \in { <<"T">>, <<"B","u","n","d","l","e","E","n","t","r","y","<","T",">","[","]">> }

\* a written declaration uses T without declaring it
UndeclaredTypeParameter(lines) ==
    \E i \in DOMAIN lines :
        /\ UsesTypeParameter(lines[i])
        /\ ~Includes(HeaderOf(lines, i), <<"<","T"," ","e","x","t","e","n","d","s"," ">>)

\* a written declaration has a content-reference field whose path-derived
\* type name is no node of the graph
UnmatchedContentReference(name) ==
    \E n \in Written(fhirTypes, parentTypes.map[name]) :
        \E i \in DOMAIN fhirTypes[n].properties :
            LET prop == fhirTypes[n].properties[i]
            IN  /\ ~IsResourceCarrier(prop)
                /\ ~IsEntryCarrier(prop)
                /\ IsTruthy(prop.contentReference)
                /\ Before(ContentReferenceTypeName(prop), <<"[","]">>) \notin DOMAIN fhirTypesMap

C10_UnmatchedNeverWritten ==
    Nested =>
        \A name \in UnitNames :
            /\ ~UndeclaredTypeParameter(files[UnitFile(name)])
            /\ ~UnmatchedContentReference(name)

(***************************************************************************)
(* Type graph and output set of one run                                    *)
(***************************************************************************)
\* the properties of a schema entry that survive the filter of line 114
KeptProperties(entry) == SelectSeq(entry.properties, KeptProperty)

\* schema entries with a non-empty property list
NonEmptyEntries ==
    { schema[i] : i \in { j \in DOMAIN schema :
                            schema[j].hasProperties /\ KeptProperties(schema[j]) # <<>> } }

NamesOf(entries) == { e.name : e \in entries }

\* main() is past the build loop of lines 54-60 of the current run
Built == Nested \/ pc \in { "nest", "threw" }

\* the nodes the current run built: the name map points at them (line 58)
CurrentNodes == { fhirTypesMap[name] : name \in DOMAIN fhirTypesMap }

Synthesized == { <<"R","e","s","o","u","r","c","e">>, <<"R","e","s","o","u","r","c","e","T","y","p","e">> }

\* main() has returned from a run
Completed == pc = "main" /\ run >= 1

(***************************************************************************)
(* C11: a type node is built for a schema entry exactly when the entry has *)
(* a non-empty property list: once the build loop is done the names of the *)
(* graph are the names of the entries with a non-empty property list, and  *)
(* the index file exports no other name than these and the two synthesized *)
(* ones.                                                                   *)
(***************************************************************************)
C11_BuiltIffNonEmpty ==
    /\ Built => DOMAIN fhirTypesMap = NamesOf(NonEmptyEntries)
    /\ (Nested /\ IndexFile \in DOMAIN files) =>
           Range(ExportedNames(files[IndexFile])) \subseteq
               (NamesOf(NonEmptyEntries) \cup Synthesized)

\* how often a value occurs in a sequence
Occurrences(seq, x) == Cardinality({ i \in DOMAIN seq : seq[i] = x })

(***************************************************************************)
(* C12: when a run has returned, every top-level type node of the run has  *)
(* its unit file, named after the node's output name, and the file         *)
(* declares the node once; every name the index file exports, other than   *)
(* Resource and ResourceType, has a written unit file.                     *)
(***************************************************************************)
C12_TopLevelUnitsWritten ==
    Completed =>
        /\ \A name \in Range(parentTypes.keys) :
               /\ UnitFile(name) \in DOMAIN files
               /\ Occurrences(DeclaredNames(files[UnitFile(name)]), name) = 1
        /\ \A name \in Range(ExportedNames(files[IndexFile])) \ Synthesized :
               UnitFile(name) \in DOMAIN files

\* the nodes whose nestedTypes list holds node n
Holders(n) == { p \in DOMAIN fhirTypes : n \in Range(fhirTypes[p].subTypes) }

(***************************************************************************)
(* C15: after the nesting pass every node with a parentName is held, once, *)
(* by the nestedTypes of exactly one node, which is another node and has   *)
(* the parent's name; no two nodes of the graph share an output name.      *)
(***************************************************************************)
C15_NestedUnderOneParent ==
    Nested =>
        /\ \A n \in DOMAIN fhirTypes :
               IsTruthy(fhirTypes[n].parentType) =>
                   \E p \in DOMAIN fhirTypes \ {n} :
                       /\ fhirTypes[p].outputName = fhirTypes[n].parentType
                       /\ Holders(n) = {p}
                       /\ Occurrences(fhirTypes[p].subTypes, n) = 1
        /\ \A n, k \in DOMAIN fhirTypes :
               fhirTypes[n].outputName = fhirTypes[k].outputName => n = k

(***************************************************************************)
(* The Value-Set Resolver on its own                                       *)
(*                                                                         *)
(* The corpus is a bundle of up to MaxResources resources drawn from       *)
(* ResourcePool, or one of the two bundles of the generation runs; the     *)
(* resolver is called once with a URL of Urls.                             *)
(***************************************************************************)
MaxResources == 3

ResourcePool ==
    { ValueSet(<<"u","r","n",":","v","s",":","s","t","a","t","u","s">>, << IncludeConcepts(<< <<"a","c","t","i","v","e">>, <<>>, <<"a","c","t","i","v","e">> >>) >>),
      CodeSystem(<<"u","r","n",":","c","s",":","t","r","e","e">>, << Concept(<<"a">>, << Concept(<<"b">>, <<>>) >>), Concept(<<"c">>, <<>>) >>),
      ValueSet(<<"u","r","n",":","v","s",":","o","v","e","r","l","a","p">>, << IncludeConcepts(<< <<"a">>, <<"b">> >>), IncludeSystem(<<"u","r","n",":","c","s",":","t","r","e","e","|","1">>) >>),
      ValueSet(<<"u","r","n",":","v","s",":","o","v","e","r","l","a","p">>, << IncludeSystem(<<"u","r","n",":","v","s",":","s","t","a","t","u","s">>), IncludeConcepts(<< <<"z">> >>) >>),
      ValueSet(<<"u","r","n",":","v","s",":","n","e","s","t","e","d">>, << IncludeSystem(<<"u","r","n",":","v","s",":","o","v","e","r","l","a","p">>), IncludeSystem(<<"u","r","n",":","v","s",":","o","v","e","r","l","a","p","|","2">>) >>),
      ValueSet(<<"u","r","n",":","v","s",":","l","o","o","p">>, << IncludeConcepts(<< <<"x">> >>), IncludeSystem(<<"u","r","n",":","v","s",":","l","o","o","p","2">>) >>),
      ValueSet(<<"u","r","n",":","v","s",":","l","o","o","p","2">>, << IncludeSystem(<<"u","r","n",":","v","s",":","l","o","o","p","|","2">>) >>),
      ValueSet(<<"u","r","n",":","v","s",":","s","e","l","f">>, << IncludeSystem(<<"u","r","n",":","v","s",":","s","e","l","f">>) >>),
      OtherResource(<<"u","r","n",":","v","s",":","s","t","a","t","u","s">>) }

Corpora ==
    Bundles \cup UNION { [1..n -> ResourcePool] : n \in 1..MaxResources }

Urls ==
    { <<"u","r","n",":","v","s",":","s","t","a","t","u","s">>, <<"u","r","n",":","v","s",":","s","t","a","t","u","s","|","4",".","0",".","1">>, <<"u","r","n",":","c","s",":","t","r","e","e">>, <<"u","r","n",":","v","s",":","o","v","e","r","l","a","p","|","1","|","2">>,
      <<"u","r","n",":","v","s",":","n","e","s","t","e","d">>, <<"u","r","n",":","v","s",":","l","o","o","p">>, <<"u","r","n",":","v","s",":","l","o","o","p","2">>, <<"u","r","n",":","v","s",":","s","e","l","f">>, <<"u","r","n",":","v","s",":","u","n","k","n","o","w","n">>, <<"|","u","r","n",":","c","s",":","t","r","e","e">> }

InitValueSet ==
    /\ pc = "valueSet"
    /\ run = 0
    /\ schema = <<>>
    /\ bundle \in Corpora
    /\ valueSets = SetValueSets(EmptyMap, bundle)
    /\ fhirTypes = <<>>
    /\ fhirTypesMap = EmptyMap
    /\ parentTypes = [keys |-> <<>>, map |-> EmptyMap]
    /\ todo = <<>>
    /\ files = EmptyMap
    /\ firstRun = EmptyMap
    /\ property = NoProperty
    /\ outcome = Pending
    /\ lookupUrl \in Urls
    /\ flattened = NotFlattened
    /\ planValue = NoPlan
    /\ nextId = 1
    /\ selection = NoSelection
    /\ slots = NoSlots
    /\ inFlight = <<>>

\* one call getValueSetValues(lookupUrl)
Flatten ==
    /\ pc = "valueSet"
    /\ flattened.status = "pending"
    /\ flattened' = IF ValueSetOverflows(lookupUrl, valueSets)
                    THEN [status |-> "overflow", codes |-> <<>>]
                    ELSE [status |-> "returned",
                          codes |-> getValueSetValues(lookupUrl, valueSets)]
    /\ UNCHANGED <<pc, run, schema, bundle, valueSets, fhirTypes, fhirTypesMap,
                   parentTypes, todo, files, firstRun, property, outcome,
                   lookupUrl, planValue, nextId,
                   selection, slots, inFlight>>

NextValueSet == Flatten

SpecValueSet == InitValueSet /\ [][NextValueSet]_vars

(***************************************************************************)
(* Reference flattening of an enumeration corpus                           *)
(***************************************************************************)
StripVersion(u) == Before(u, <<"|">>)

\* the enumerations a composition's system rules lead to
Successors(vs, u) ==
    IF vs[u].resourceType # "ValueSet" THEN {}
    ELSE { StripVersion(vs[u].include[i].system) :
             i \in { j \in DOMAIN vs[u].include :
                       /\ ~vs[u].include[j].hasConcept
                       /\ vs[u].include[j].system # <<>> } } \cap DOMAIN vs

RECURSIVE ReachableFrom(_, _, _)
ReachableFrom(vs, S, n) ==
    IF n = 0 THEN S
    ELSE ReachableFrom(vs, S \cup UNION { Successors(vs, u) : u \in S }, n - 1)

\* no enumeration of the corpus leads back to itself
Acyclic(vs) ==
    \A u \in DOMAIN vs :
        u \notin ReachableFrom(vs, Successors(vs, u), Cardinality(DOMAIN vs))

ListedCodes(codes) == SelectSeq(codes, LAMBDA code : code # <<>>)

\* a node's code before its children, siblings in declared order
RECURSIVE PreOrder(_)
PreOrder(concepts) ==
    Concat([i \in DOMAIN concepts |->
               ListedCodes(<< concepts[i].code >>) \o PreOrder(concepts[i].concept)])

RECURSIVE ReferenceFlattening(_, _, _)
ReferenceFlattening(u, vs, depth) ==
    LET key == StripVersion(u)
        Rule(inc) == IF inc.hasConcept THEN ListedCodes(inc.concept)
                     ELSE IF inc.system = <<>> THEN <<>>
                     ELSE ReferenceFlattening(inc.system, vs, depth - 1)
    IN  IF key \notin DOMAIN vs \/ depth = 0 THEN <<>>
        ELSE IF vs[key].resourceType = "ValueSet"
             THEN Concat([i \in DOMAIN vs[key].include |-> Rule(vs[key].include[i])])
        ELSE IF vs[key].resourceType = "CodeSystem" THEN PreOrder(vs[key].concept)
        ELSE <<>>

(***************************************************************************)
(* C13: on an acyclic enumeration corpus getValueSetValues(url) returns    *)
(* the reference flattening of url: the version suffix is ignored, an      *)
(* unknown URL gives the empty sequence, a composition gives its rules'    *)
(* codes in declared order with system rules flattened recursively, a      *)
(* concept list gives its codes in pre-order, and duplicates are kept.     *)
(***************************************************************************)
C13_ReferenceFlattening ==
    (flattened.status # "pending" /\ Acyclic(valueSets)) =>
        /\ flattened.status = "returned"
        /\ flattened.codes =
               ReferenceFlattening(lookupUrl, valueSets, Cardinality(DOMAIN valueSets) + 1)

\* a composition two system rules deep, one rule with a version suffix,
\* whose flattening lists codes more than once
C13_Witness ==
    /\ lookupUrl = <<"u","r","n",":","v","s",":","n","e","s","t","e","d">>
    /\ Acyclic(valueSets)
    /\ flattened.status = "returned"
    /\ flattened.codes = << <<"a">>, <<"b">>, <<"a">>, <<"b">>, <<"c">>, <<"a">>, <<"b">>, <<"a">>, <<"b">>, <<"c">> >>


(***************************************************************************)
(* C14: a call chain of the Value-Set Resolver never visits the same URL   *)
(* twice, so getValueSetValues(url) returns on every corpus, also on one   *)
(* whose system references lead back to an enumeration being flattened.    *)
(***************************************************************************)
C14_NeverRevisits == flattened.status # "overflow"

\* every segment of a '#'-prefixed fragment path, capitalized and concatenated
PathDerivedName(reference) ==
    LET segments == Split(SubSeq(reference, 2, Len(reference)), <<".">>)
    IN  Concat([i \in DOMAIN segments |-> capitalize(segments[i])])

(***************************************************************************)
(* C16: the content-reference rule comes first: a property that carries a  *)
(* content-reference resolves to exactly one field, named as the property  *)
(* and typed by the path-derived name (a sequence of it when the upper     *)
(* bound is unbounded), also when it is a designated generic-carrier field *)
(* or has a '[x]' name.                                                    *)
(***************************************************************************)
C16_ContentReferenceFirst ==
    (outcome.status = "returned" /\ IsTruthy(property.contentReference)) =>
        outcome.fields =
            << [name |-> property.name,
                typeName |-> IF property.max = "*"
                             THEN PathDerivedName(property.contentReference) \o <<"[","]">>
                             ELSE PathDerivedName(property.contentReference)] >>

\* the header of a declaration has the type-parameter clause
DeclaresTypeParameter(header) == Includes(header, <<"<","T"," ","e","x","t","e","n","d","s"," ">>)

(***************************************************************************)
(* C17: in every emitted declaration a field typed T or BundleEntry<T>[]   *)
(* appears only under a header that declares the type parameter T.         *)
(***************************************************************************)
C17_TypeParameterDeclared ==
    \A file \in DOMAIN files :
        \A i \in DOMAIN files[file] :
            UsesTypeParameter(files[file][i]) =>
                DeclaresTypeParameter(HeaderOf(files[file], i))

\* names in the order of localeCompare, equal names allowed
InNameOrder(names) ==
    \A i, j \in DOMAIN names : i < j => ~LocaleLess(names[j], names[i])

(***************************************************************************)
(* C18: in every written unit of a top-level type with a non-empty         *)
(* property list the top-level type's declaration comes first and the      *)
(* declarations after it, those of the nested types at any depth, are in   *)
(* lexicographic order of output name.                                     *)
(***************************************************************************)
C18_NestedInNameOrder ==
    \A name \in UnitNames \cap NamesOf(NonEmptyEntries) :
        LET declared == DeclaredNames(files[UnitFile(name)])
        IN  /\ declared # <<>>
            /\ declared[1] = name
            /\ InNameOrder(Tail(declared))

\* the built schema entries that have a parentType
NestedEntries == { e \in BuiltEntries : IsTruthy(e.parentType) }

\* the top-level type a name is scoped under, following parentType upwards
RECURSIVE TopLevelOf(_, _)
TopLevelOf(name, steps) ==
    LET named == { e \in Range(schema) : e.name = name /\ IsTruthy(e.parentType) }
    IN  IF named = {} \/ steps = 0 THEN name
        ELSE TopLevelOf((CHOOSE e \in named : TRUE).parentType, steps - 1)

(***************************************************************************)
(* C19: when a run has returned, every nested type node is declared once   *)
(* over the whole output set: in the unit of the top-level type it is      *)
(* scoped under, once, in no other file, and it has no unit of its own.    *)
(***************************************************************************)
C19_NestedDeclaredOnce ==
    Completed =>
        \A e \in NestedEntries :
            LET unit == UnitFile(TopLevelOf(e.name, Len(schema)))
            IN  /\ { file \in DOMAIN files : Declares(files[file], e.name) } = { unit }
                /\ Occurrences(DeclaredNames(files[unit]), e.name) = 1
                /\ UnitFile(e.name) \notin DOMAIN files

(***************************************************************************)
(* PlanDefinitionBuilder: action keys (PlanDefinitionBuilder.tsx)          *)
(*                                                                         *)
(* An action is its id (the empty string when it has none) and the list of *)
(* its nested actions.  The counter nextId is module state shared by every *)
(* load and every addition.                                                *)
(***************************************************************************)
MaxActions == 2
MaxId == 4

Digits == <<"0","1","2","3","4","5","6","7","8","9">>

DigitValue(c) == (CHOOSE i \in DOMAIN Digits : Digits[i] = c) - 1

\* Number.prototype.toString of an integer n >= 0
RECURSIVE NumberToString(_)
NumberToString(n) ==
    IF n < 10 THEN << Digits[n + 1] >>
    ELSE NumberToString(n \div 10) \o << Digits[(n % 10) + 1] >>

RECURSIVE LeadingDigits(_)
LeadingDigits(s) ==
    IF s = <<>> \/ s[1] \notin Range(Digits) THEN <<>>
    ELSE << s[1] >> \o LeadingDigits(Tail(s))

RECURSIVE DecimalValue(_, _)
DecimalValue(digits, acc) ==
    IF digits = <<>> THEN acc
    ELSE DecimalValue(Tail(digits), 10 * acc + DigitValue(digits[1]))

RECURSIVE TrimStart(_)
TrimStart(s) == IF s # <<>> /\ s[1] = " " THEN TrimStart(Tail(s)) ELSE s

\* parseInt(s) for a string without a radix prefix: leading blanks, a sign,
\* then the longest run of decimal digits; NaN when there is no digit
parseInt(s) ==
    LET trimmed == TrimStart(s)
        signed == trimmed # <<>> /\ trimmed[1] \in { "+", "-" }
        digits == LeadingDigits(IF signed THEN Tail(trimmed) ELSE trimmed)
        magnitude == DecimalValue(digits, 0)
    IN  IF digits = <<>> THEN [isNaN |-> TRUE, value |-> 0]
        ELSE [isNaN |-> FALSE,
              value |-> IF signed /\ trimmed[1] = "-" THEN 0 - magnitude ELSE magnitude]

Max(a, b) == IF a >= b THEN a ELSE b

\* generateId(existing) with the counter at the call: the id and the counter after
generateId(existing, counter) ==
    IF IsTruthy(existing)
    THEN [id |-> existing,
          nextId |-> IF StartsWith(existing, <<"i","d","-">>)
                        /\ ~parseInt(SubSeq(existing, 4, Len(existing))).isNaN
                     THEN Max(counter, parseInt(SubSeq(existing, 4, Len(existing))).value + 1)
                     ELSE counter]
    ELSE [id |-> <<"i","d","-">> \o NumberToString(counter), nextId |-> counter + 1]

Action(id, nested) == [id |-> id, action |-> nested]

\* actions.map(...) of lines 463-467: each action's id is generated before its
\* nested actions are keyed, and before the next action of the list
RECURSIVE ensurePlanDefinitionActionKeys(_, _)
ensurePlanDefinitionActionKeys(actions, counter) ==
    IF actions = <<>> THEN [action |-> <<>>, nextId |-> counter]
    ELSE LET own == generateId(actions[1].id, counter)
             nested == ensurePlanDefinitionActionKeys(actions[1].action, own.nextId)
             rest == ensurePlanDefinitionActionKeys(Tail(actions), nested.nextId)
         IN  [action |-> << Action(own.id, nested.action) >> \o rest.action,
              nextId |-> rest.nextId]

ensurePlanDefinitionKeys(planDefinition, counter) ==
    LET keyed == ensurePlanDefinitionActionKeys(planDefinition, counter)
    IN  [value |-> [loaded |-> TRUE, action |-> keyed.action], nextId |-> keyed.nextId]

\* the ids of a list of actions and of their nested actions, in list order
RECURSIVE IdsOf(_)
IdsOf(actions) ==
    IF actions = <<>> THEN <<>>
    ELSE << actions[1].id >> \o IdsOf(actions[1].action) \o IdsOf(Tail(actions))

NoDuplicates(seq) == \A i, j \in DOMAIN seq : seq[i] = seq[j] => i = j

\* the ids a stored plan may carry; the empty string is an action without id
InputIds == { <<>>, <<"i","d","-","1">>, <<"i","d","-","2","x">>, <<"a">> }

InputActions ==
    LET leaves == { Action(id, <<>>) : id \in InputIds }
    IN  leaves \cup { Action(id, << leaf >>) : id \in InputIds, leaf \in leaves }

\* the plans handed over as defaultValue: up to MaxActions top-level actions,
\* the ids that are present pairwise distinct
DefaultValues ==
    { plan \in UNION { [1..n -> InputActions] : n \in 0..MaxActions } :
        NoDuplicates(SelectSeq(IdsOf(plan), IsTruthy)) }

InitPlan ==
    /\ pc = "plan"
    /\ run = 0
    /\ schema = <<>>
    /\ bundle = <<>>
    /\ valueSets = EmptyMap
    /\ fhirTypes = <<>>
    /\ fhirTypesMap = EmptyMap
    /\ parentTypes = [keys |-> <<>>, map |-> EmptyMap]
    /\ todo = <<>>
    /\ files = EmptyMap
    /\ firstRun = EmptyMap
    /\ property = NoProperty
    /\ outcome = Pending
    /\ lookupUrl = <<>>
    /\ flattened = NotFlattened
    /\ planValue = NoPlan
    /\ nextId = 1
    /\ selection = NoSelection
    /\ slots = NoSlots
    /\ inFlight = <<>>

\* the effect of lines 46-47 when defaultValue changes
LoadPlan ==
    /\ pc = "plan"
    /\ \E planDefinition \in DefaultValues :
           LET keyed == ensurePlanDefinitionKeys(planDefinition, nextId)
           IN  /\ keyed.nextId <= MaxId + 1
               /\ planValue' = keyed.value
               /\ nextId' = keyed.nextId
    /\ UNCHANGED <<pc, run, schema, bundle, valueSets, fhirTypes, fhirTypesMap,
                   parentTypes, todo, files, firstRun, property, outcome,
                   lookupUrl, flattened,
                   selection, slots, inFlight>>

\* changeAction of lines 102-106: every action with the changed action's id
\* is replaced
changeAction(actions, changedAction) ==
    [i \in DOMAIN actions |->
        IF actions[i].id = changedAction.id THEN changedAction ELSE actions[i]]

\* 'Add action' under the plan (lines 73-80, 108-111, 137)
AddAction ==
    /\ pc = "plan"
    /\ planValue.loaded
    /\ nextId <= MaxId
    /\ Len(planValue.action) <= MaxActions
    /\ planValue' = [planValue EXCEPT
                        !.action = Append(@, Action(generateId(<<>>, nextId).id, <<>>))]
    /\ nextId' = generateId(<<>>, nextId).nextId
    /\ UNCHANGED <<pc, run, schema, bundle, valueSets, fhirTypes, fhirTypesMap,
                   parentTypes, todo, files, firstRun, property, outcome,
                   lookupUrl, flattened,
                   selection, slots, inFlight>>

\* 'Add action' under a top-level action (lines 291-298, 108-111, 137)
AddNestedAction ==
    /\ pc = "plan"
    /\ planValue.loaded
    /\ nextId <= MaxId
    /\ \E i \in DOMAIN planValue.action :
           LET parent == planValue.action[i]
               added == Action(generateId(<<>>, nextId).id, <<>>)
           IN  /\ Len(parent.action) <= MaxActions
               /\ planValue' = [planValue EXCEPT
                      !.action = changeAction(@, Action(parent.id, Append(parent.action, added)))]
    /\ nextId' = generateId(<<>>, nextId).nextId
    /\ UNCHANGED <<pc, run, schema, bundle, valueSets, fhirTypes, fhirTypesMap,
                   parentTypes, todo, files, firstRun, property, outcome,
                   lookupUrl, flattened,
                   selection, slots, inFlight>>

\* 'Remove' on a top-level action (lines 113-115)
RemoveAction ==
    /\ pc = "plan"
    /\ planValue.loaded
    /\ \E i \in DOMAIN planValue.action :
           planValue' = [planValue EXCEPT
                            !.action = SubSeq(@, 1, i - 1) \o SubSeq(@, i + 1, Len(@))]
    /\ UNCHANGED <<pc, run, schema, bundle, valueSets, fhirTypes, fhirTypesMap,
                   parentTypes, todo, files, firstRun, property, outcome,
                   lookupUrl, flattened, nextId,
                   selection, slots, inFlight>>

NextPlan ==
    \/ LoadPlan
    \/ AddAction
    \/ AddNestedAction
    \/ RemoveAction

SpecPlan == InitPlan /\ [][NextPlan]_vars

(***************************************************************************)
(* C20: the keys are unique: whenever a plan is loaded, and after every    *)
(* later addition, the ids of all its actions, at every nesting depth, are *)
(* pairwise distinct.                                                      *)
(***************************************************************************)
C20_KeysUnique == planValue.loaded => NoDuplicates(IdsOf(planValue.action))

(***************************************************************************)
(* Scheduler: the slot search (Scheduler.tsx lines 23-50)                  *)
(*                                                                         *)
(* A schedule is a number from 1 to MaxSchedules, 0 while useResource has  *)
(* no resource yet; a month is a number from 1 to MaxMonths, 1 being the   *)
(* start month.  A search is the schedule and the month it was issued for, *)
(* and its response is the slots of that schedule and month.  The effect   *)
(* of lines 32-50 returns no cleanup function, so a search stays in flight *)
(* until its promise settles, whatever is selected by then.                *)
(***************************************************************************)
MaxSchedules == 2
MaxMonths == 3
MaxInFlight == 2

Schedules == 1..MaxSchedules
Months == 1..MaxMonths

Search(schedule, month) == [schedule |-> schedule, month |-> month]

\* setSlots([]) of line 34
EmptySlots == [status |-> "empty", schedule |-> 0, month |-> 0]

\* the slots a search's response carries
SlotsOf(search) == [status |-> "loaded", schedule |-> search.schedule, month |-> search.month]

\* the effect of lines 32-50 for a render with the given schedule and month
useEffect(schedule, month, searches) ==
    IF schedule # 0
    THEN [slots |-> EmptySlots, inFlight |-> Append(searches, Search(schedule, month))]
    ELSE [slots |-> NoSlots, inFlight |-> searches]

\* the component is mounted and the effect has run once
InitScheduler ==
    /\ pc = "scheduler"
    /\ run = 0
    /\ schema = <<>>
    /\ bundle = <<>>
    /\ valueSets = EmptyMap
    /\ fhirTypes = <<>>
    /\ fhirTypesMap = EmptyMap
    /\ parentTypes = [keys |-> <<>>, map |-> EmptyMap]
    /\ todo = <<>>
    /\ files = EmptyMap
    /\ firstRun = EmptyMap
    /\ property = NoProperty
    /\ outcome = Pending
    /\ lookupUrl = <<>>
    /\ flattened = NotFlattened
    /\ planValue = NoPlan
    /\ nextId = 1
    /\ \E schedule \in {0} \cup Schedules :
           /\ selection = [schedule |-> schedule, month |-> 1]
           /\ slots = useEffect(schedule, 1, <<>>).slots
           /\ inFlight = useEffect(schedule, 1, <<>>).inFlight

\* useResource(props.schedule) yields another schedule, or none (line 20)
ChangeSchedule ==
    /\ pc = "scheduler"
    /\ \E schedule \in ({0} \cup Schedules) \ { selection.schedule } :
           /\ schedule # 0 => Len(inFlight) < MaxInFlight
           /\ selection' = [selection EXCEPT !.schedule = schedule]
           /\ slots' = useEffect(schedule, selection.month, inFlight).slots
           /\ inFlight' = useEffect(schedule, selection.month, inFlight).inFlight
    /\ UNCHANGED <<run, schema, bundle, valueSets, fhirTypes, fhirTypesMap,
                   parentTypes, todo, files, firstRun, property, outcome,
                   lookupUrl, flattened, planValue, nextId, pc>>

\* onChangeMonth={setMonth} of the calendar (line 75), which is rendered only
\* with a schedule and slots (line 52); every call passes a new Date object
ChangeMonth ==
    /\ pc = "scheduler"
    /\ selection.schedule # 0
    /\ slots.status # "undefined"
    /\ Len(inFlight) < MaxInFlight
    /\ \E month \in Months :
           /\ selection' = [selection EXCEPT !.month = month]
           /\ slots' = useEffect(selection.schedule, month, inFlight).slots
           /\ inFlight' = useEffect(selection.schedule, month, inFlight).inFlight
    /\ UNCHANGED <<run, schema, bundle, valueSets, fhirTypes, fhirTypesMap,
                   parentTypes, todo, files, firstRun, property, outcome,
                   lookupUrl, flattened, planValue, nextId, pc>>

Without(searches, i) == SubSeq(searches, 1, i - 1) \o SubSeq(searches, i + 1, Len(searches))

\* a search's promise is fulfilled: .then(setSlots) of line 45
SearchResolves ==
    /\ pc = "scheduler"
    /\ \E i \in DOMAIN inFlight :
           /\ slots' = SlotsOf(inFlight[i])
           /\ inFlight' = Without(inFlight, i)
    /\ UNCHANGED <<run, schema, bundle, valueSets, fhirTypes, fhirTypesMap,
                   parentTypes, todo, files, firstRun, property, outcome,
                   lookupUrl, flattened, planValue, nextId, pc, selection>>

\* a search's promise is rejected: .catch(console.log) of line 46
SearchRejects ==
    /\ pc = "scheduler"
    /\ \E i \in DOMAIN inFlight : inFlight' = Without(inFlight, i)
    /\ UNCHANGED <<run, schema, bundle, valueSets, fhirTypes, fhirTypesMap,
                   parentTypes, todo, files, firstRun, property, outcome,
                   lookupUrl, flattened, planValue, nextId, pc, selection, slots>>

NextScheduler ==
    \/ ChangeSchedule
    \/ ChangeMonth
    \/ SearchResolves
    \/ SearchRejects

SpecScheduler == InitScheduler /\ [][NextScheduler]_vars

(***************************************************************************)
(* C21: whenever a schedule is selected and the slot list holds a search   *)
(* response, the response is that of a search issued for the currently     *)
(* selected schedule and month: the response of an earlier search never    *)
(* replaces the slots of a later selection.                                *)
(***************************************************************************)
C21_SlotsOfSelection ==
    (slots.status = "loaded" /\ selection.schedule # 0) =>
        /\ slots.schedule = selection.schedule
        /\ slots.month = selection.month
====
